---- MODULE Spec2Model ----
(***************************************************************************)
(* A model of the sentence pipeline of game-learning-project_v2:           *)
(* src/data/video_processor.py (splitting, normalisation, local and        *)
(* cross-video deduplication, annotation copying, processing state),       *)
(* src/data/data_manager.py (ai_responses, video_processing_state),        *)
(* src/processing/database_manager.py (videos, transcriptions, segments)   *)
(* and src/data/enhanced_video_processor.py (scene grouping, frames).      *)
(*                                                                         *)
(* Texts are sequences of one-character strings, times are exact rationals *)
(* [n |-> numerator, d |-> denominator] (the code uses binary floats; the  *)
(* model keeps the exact value of each expression).                        *)
(***************************************************************************)
EXTENDS Integers, Sequences, FiniteSets, TLC

(***************************************************************************)
(* Characters                                                              *)
(***************************************************************************)
UpperChars == <<"A","B","C","D","E","F","G","H","I","J","K","L","M",
                "N","O","P","Q","R","S","T","U","V","W","X","Y","Z">>
LowerChars == <<"a","b","c","d","e","f","g","h","i","j","k","l","m",
                "n","o","p","q","r","s","t","u","v","w","x","y","z">>

\* [.!?] : the characters of sentence_pattern
SentenceDelims == {".", "!", "?"}
\* \s : whitespace
WhiteChars == {" "}
\* [^\w] : the characters that are neither letter, digit nor underscore
NonWordChars == SentenceDelims \cup WhiteChars \cup {",", "'", "-", ":", ";"}

\* str.lower() on one character
LowerChar(c) ==
    IF \E i \in 1..Len(UpperChars) : UpperChars[i] = c
    THEN LowerChars[CHOOSE i \in 1..Len(UpperChars) : UpperChars[i] = c]
    ELSE c

\* str.lower()
lower(t) == [i \in 1..Len(t) |-> LowerChar(t[i])]

(***************************************************************************)
(* Python string helpers                                                   *)
(***************************************************************************)
RECURSIVE DropWhile(_, _)
\* t without its longest prefix of characters in S
DropWhile(t, S) ==
    IF t # <<>> /\ Head(t) \in S THEN DropWhile(Tail(t), S) ELSE t

RECURSIVE DropWhileEnd(_, _)
\* t without its longest suffix of characters in S
DropWhileEnd(t, S) ==
    IF t # <<>> /\ t[Len(t)] \in S
    THEN DropWhileEnd(SubSeq(t, 1, Len(t) - 1), S)
    ELSE t

\* str.strip()
strip(t) == DropWhileEnd(DropWhile(t, WhiteChars), WhiteChars)

RECURSIVE TakeWhileNot(_, _)
\* the longest prefix of t with no character in S
TakeWhileNot(t, S) ==
    IF t = <<>> \/ Head(t) \in S THEN <<>>
    ELSE <<Head(t)>> \o TakeWhileNot(Tail(t), S)

RECURSIVE TakeWhileIn(_, _)
\* the longest prefix of t with all characters in S
TakeWhileIn(t, S) ==
    IF t = <<>> \/ Head(t) \notin S THEN <<>>
    ELSE <<Head(t)>> \o TakeWhileIn(Tail(t), S)

RECURSIVE split(_)
\* str.split(): the maximal runs of non-whitespace characters
split(t) ==
    LET u == DropWhile(t, WhiteChars)
        w == TakeWhileNot(u, WhiteChars)
    IN IF u = <<>> THEN <<>>
       ELSE <<w>> \o split(SubSeq(u, Len(w) + 1, Len(u)))

RECURSIVE join(_)
\* ' '.join(words)
join(words) ==
    IF words = <<>> THEN <<>>
    ELSE IF Len(words) = 1 THEN words[1]
    ELSE words[1] \o <<" ">> \o join(Tail(words))

RECURSIVE re_split(_)
\* re.split(r'([.!?]+)', text): the text between the delimiter runs (possibly
\* empty, also first and last) alternating with the delimiter runs
re_split(t) ==
    LET head == TakeWhileNot(t, SentenceDelims)
        rest == SubSeq(t, Len(head) + 1, Len(t))
        run  == TakeWhileIn(rest, SentenceDelims)
    IN IF rest = <<>> THEN <<head>>
       ELSE <<head, run>> \o re_split(SubSeq(rest, Len(run) + 1, Len(rest)))

\* re.match(sentence_pattern, part): the part starts with a delimiter
IsDelimPart(part) == part # <<>> /\ part[1] \in SentenceDelims

(***************************************************************************)
(* Exact rational arithmetic for the time stamps                           *)
(***************************************************************************)
RECURSIVE Gcd(_, _)
Gcd(a, b) == IF b = 0 THEN a ELSE Gcd(b, a % b)

Abs(x) == IF x < 0 THEN -x ELSE x

Rat(n, d) ==
    LET g == Gcd(Abs(n), d)
    IN IF n = 0 THEN [n |-> 0, d |-> 1] ELSE [n |-> n \div g, d |-> d \div g]

RInt(k) == [n |-> k, d |-> 1]
RAdd(a, b) == Rat(a.n * b.d + b.n * a.d, a.d * b.d)
RSub(a, b) == Rat(a.n * b.d - b.n * a.d, a.d * b.d)
RMul(a, b) == Rat(a.n * b.n, a.d * b.d)
RLess(a, b) == a.n * b.d < b.n * a.d
RLeq(a, b) == a.n * b.d <= b.n * a.d
RMin(a, b) == IF RLeq(a, b) THEN a ELSE b

\* f"{x:.2f}" for x >= 0: the decimal digits of x rounded to hundredths
RECURSIVE Digits(_)
Digits(k) ==
    LET ds == <<"0","1","2","3","4","5","6","7","8","9">>
    IN IF k < 10 THEN <<ds[k + 1]>> ELSE Digits(k \div 10) \o <<ds[(k % 10) + 1]>>

Hundredths(x) == (2 * 100 * x.n + x.d) \div (2 * x.d)

Fmt2(x) ==
    LET h == Hundredths(x)
    IN Digits(h \div 100) \o <<".">> \o Digits((h % 100) \div 10) \o Digits(h % 10)

(***************************************************************************)
(* The corpus of the model: two video files and the transcripts Whisper    *)
(* returns for the contents a file can have.                               *)
(***************************************************************************)
File1 == <<"v","1">>
File2 == <<"v","2">>
VideoFiles == {File1, File2}

TxtWakeRun ==
    <<"W","a","k","e"," ","u","p"," ","n","o","w","."," ",
      "R","u","n"," ","t","o"," ","t","h","e","m",".">>
TxtWakeGo ==
    <<"w","a","k","e"," ","u","p"," ","N","O","W","!"," ",
      "G","o"," ","f","a","r"," ","a","w","a","y",".">>

\* The contents a video file can have; "silent" has no speech
Contents == {"wakerun", "wakego", "silent"}

\* Transcriber.transcribe_audio(...)["segments"]: Whisper's segments, with
\* the keys 'start', 'end' and 'text'
WhisperSegments(content) ==
    CASE content = "wakerun" ->
           << [start |-> RInt(0), end |-> RInt(4), text |-> TxtWakeRun] >>
      [] content = "wakego" ->
           << [start |-> RInt(1), end |-> RInt(5), text |-> TxtWakeGo] >>
      [] OTHER -> <<>>

\* DataManager._get_file_hash: the MD5 of the file, taken as collision free
_get_file_hash(content) == content

(***************************************************************************)
(* VideoProcessor: normalisation and sentence splitting                    *)
(***************************************************************************)
\* Sentences shorter than this are filtered out
MinSentenceLen == 10

\* filler_words; 'you know' can never equal one whitespace-separated word
FillerWords == { <<"u","m">>, <<"u","h">>, <<"e","r">>, <<"a","h">>,
                 <<"l","i","k","e">>,
                 <<"y","o","u"," ","k","n","o","w">> }

RECURSIVE CollapseWhite(_)
\* re.sub(r'\s+', ' ', t)
CollapseWhite(t) ==
    IF t = <<>> THEN <<>>
    ELSE IF Head(t) \in WhiteChars
         THEN <<" ">> \o CollapseWhite(DropWhile(t, WhiteChars))
         ELSE <<Head(t)>> \o CollapseWhite(Tail(t))

\* re.sub(r'^[^\w]+|[^\w]+$', '', t)
StripNonWord(t) == DropWhileEnd(DropWhile(t, NonWordChars), NonWordChars)

\* [w for w in words if w not in filler_words]
RemoveFillers(words) == SelectSeq(words, LAMBDA w : w \notin FillerWords)

_normalize_sentence_for_comparison(text) ==
    LET n1 == lower(text)
        n2 == join(split(n1))
        n3 == StripNonWord(n2)
        n4 == CollapseWhite(n3)
        words == RemoveFillers(split(n4))
    IN strip(join(words))

\* A segment in the format of the store ('start_time') or of Whisper ('start')
HasDbTimes(segment) == "start_time" \in DOMAIN segment
HasWhisperTimes(segment) == "start" \in DOMAIN segment
SegStart(segment) == IF HasDbTimes(segment) THEN segment.start_time ELSE segment.start
SegEnd(segment) == IF HasDbTimes(segment) THEN segment.end_time ELSE segment.end

RECURSIVE SplitParts(_, _, _, _, _)
\* The loop over parts of one segment from index i on (i is 1-based, so the
\* code's (i + 1) / len(parts) is i / Len(parts)), then the trailing text.
SplitParts(parts, i, current_sentence, sentence_start, end_time) ==
    IF i > Len(parts)
    THEN IF strip(current_sentence) # <<>>
         THEN << [text |-> strip(current_sentence),
                  start_time |-> sentence_start,
                  end_time |-> end_time] >>
         ELSE <<>>
    ELSE LET part == parts[i]
         IN IF strip(part) = <<>>
            THEN SplitParts(parts, i + 1, current_sentence, sentence_start, end_time)
            ELSE LET cur == current_sentence \o part
                 IN IF IsDelimPart(part) /\ strip(cur) # <<>>
                    THEN LET progress == Rat(i, Len(parts))
                             sentence_end ==
                                 RAdd(sentence_start,
                                      RMul(RSub(end_time, sentence_start), progress))
                         IN << [text |-> strip(cur),
                                start_time |-> sentence_start,
                                end_time |-> RMin(sentence_end, end_time)] >>
                            \o SplitParts(parts, i + 1, <<>>, sentence_end, end_time)
                    ELSE SplitParts(parts, i + 1, cur, sentence_start, end_time)

\* A loop body whose first sentence starts at time 0 instead of the start
\* of the segment
SplitSegment_from_zero(text, start_time, end_time) ==
    SplitParts(re_split(strip(text)), 1, <<>>, RInt(0), end_time)

\* The sentences the loop body emits for one segment text with its times
SplitSegment(text, start_time, end_time) ==
    SplitParts(re_split(strip(text)), 1, <<>>, start_time, end_time)

\* The texts and times of the segments of the corpus
CorpusSpans ==
    UNION {{<<WhisperSegments(content)[i].text,
              WhisperSegments(content)[i].start,
              WhisperSegments(content)[i].end>> :
               i \in 1..Len(WhisperSegments(content))} : content \in Contents}

\* SplitSegment of the segments of the corpus, computed once
CorpusSplit == [span \in CorpusSpans |-> SplitSegment(span[1], span[2], span[3])]

\* _normalize_sentence_for_comparison of the sentences of the corpus,
\* computed once
CorpusNormalized ==
    [text \in UNION {{CorpusSplit[span][i].text : i \in 1..Len(CorpusSplit[span])} :
                        span \in CorpusSpans}
        |-> _normalize_sentence_for_comparison(text)]

\* _normalize_sentence_for_comparison(text), looked up for a corpus sentence
normalized(text) ==
    IF text \in DOMAIN CorpusNormalized THEN CorpusNormalized[text]
    ELSE _normalize_sentence_for_comparison(text)

\* The sentences of one segment, looked up for a corpus segment
SegmentSentences(segment) ==
    LET span == <<segment.text, SegStart(segment), SegEnd(segment)>>
    IN  IF span \in DOMAIN CorpusSplit THEN CorpusSplit[span]
        ELSE SplitSegment(span[1], span[2], span[3])

RECURSIVE CandidateSentences(_)
\* The sentences the loop over segments emits, in emission order, before
\* deduplication and before the filter on short sentences.
CandidateSentences(segments) ==
    IF segments = <<>> THEN <<>>
    ELSE LET segment == Head(segments)
         IN IF ~HasDbTimes(segment) /\ ~HasWhisperTimes(segment)
            THEN CandidateSentences(Tail(segments))
            ELSE SegmentSentences(segment) \o CandidateSentences(Tail(segments))

\* re.match(r'^[.!?\s]+$', text)
OnlyPunctuation(text) ==
    text # <<>> /\ \A i \in 1..Len(text) : text[i] \in SentenceDelims \cup WhiteChars

\* len(text) >= 10 and not re.match(r'^[.!?\s]+$', text)
KeepSentence(s) ==
    Len(strip(s.text)) >= MinSentenceLen /\ ~OnlyPunctuation(strip(s.text))

RECURSIVE DedupSeen(_, _)
\* seen_sentences: a candidate is kept when its normalized text is new
DedupSeen(cands, seen_sentences) ==
    IF cands = <<>> THEN <<>>
    ELSE LET normalized_text == normalized(Head(cands).text)
         IN IF normalized_text \notin seen_sentences
            THEN <<Head(cands)>>
                 \o DedupSeen(Tail(cands), seen_sentences \cup {normalized_text})
            ELSE DedupSeen(Tail(cands), seen_sentences)

split_text_into_sentences(segments) ==
    SelectSeq(DedupSeen(CandidateSentences(segments), {}), KeepSentence)

_split_text_simple(segments) ==
    SelectSeq(CandidateSentences(segments), KeepSentence)

(***************************************************************************)
(* DataManager: the key of an annotation                                   *)
(***************************************************************************)
\* Keys that leave out a part of what the annotation key digests: the
\* video, or the sentence and its start time
_get_sentence_hash_without_video(sentence_text, video_filename, start_time) ==
    sentence_text \o <<"_">> \o Fmt2(start_time)

_get_sentence_hash_without_sentence(sentence_text, video_filename, start_time) ==
    video_filename

\* md5(f"{sentence_text}_{video_filename}_{start_time:.2f}"): MD5 is taken
\* as collision free, so the hash is the string it digests
_get_sentence_hash(sentence_text, video_filename, start_time) ==
    sentence_text \o <<"_">> \o video_filename \o <<"_">> \o Fmt2(start_time)

(***************************************************************************)
(* DatabaseManager: videos, transcriptions, segments                       *)
(***************************************************************************)
\* The id of the row of videos with this filename, 0 when there is none
VideoId(vids, filename) ==
    IF \E i \in 1..Len(vids) : vids[i] = filename
    THEN CHOOSE i \in 1..Len(vids) : vids[i] = filename
    ELSE 0

\* add_video: INSERT, or on IntegrityError (filename is unique) the id of the
\* existing row. The result is the table and the id.
add_video(vids, filename) ==
    IF VideoId(vids, filename) # 0
    THEN [videos |-> vids, video_id |-> VideoId(vids, filename)]
    ELSE [videos |-> Append(vids, filename), video_id |-> Len(vids) + 1]

\* get_all_videos: ORDER BY created_at DESC, the newest row first
get_all_videos(vids) ==
    [i \in 1..Len(vids) |->
        [id |-> Len(vids) + 1 - i, filename |-> vids[Len(vids) + 1 - i]]]

\* One row of segments as add_transcription inserts it
SegmentRow(segment) ==
    [start_time |-> segment.start, end_time |-> segment.end, text |-> segment.text]

\* add_transcription: one transcriptions row and one segments row per
\* segment, in one transaction; nothing stored before is removed
add_transcription(trs, video_id, transcription_segments) ==
    Append(trs, [video_id |-> video_id,
                 segments |-> [i \in 1..Len(transcription_segments) |->
                                  SegmentRow(transcription_segments[i])]])

RECURSIVE InsertByStart(_, _)
\* seg put into the list sorted by start_time, after the rows that are not
\* later than it (rows of equal start_time stay in insertion order)
InsertByStart(sorted, seg) ==
    IF sorted = <<>> THEN <<seg>>
    ELSE IF RLess(seg.start_time, Head(sorted).start_time)
         THEN <<seg>> \o sorted
         ELSE <<Head(sorted)>> \o InsertByStart(Tail(sorted), seg)

RECURSIVE SortByStart(_, _)
SortByStart(segs, acc) ==
    IF segs = <<>> THEN acc
    ELSE SortByStart(Tail(segs), InsertByStart(acc, Head(segs)))

RECURSIVE SegmentsOfVideo(_, _)
\* The segments rows joined to the transcriptions of the video, in rowid order
SegmentsOfVideo(trs, video_id) ==
    IF trs = <<>> THEN <<>>
    ELSE (IF Head(trs).video_id = video_id THEN Head(trs).segments ELSE <<>>)
         \o SegmentsOfVideo(Tail(trs), video_id)

\* get_video_segments: every segment of every transcription of the video,
\* ORDER BY s.start_time
get_video_segments(trs, video_id) ==
    SortByStart(SegmentsOfVideo(trs, video_id), <<>>)

(***************************************************************************)
(* DataManager: the ai_responses and video_processing_state tables.        *)
(* An optional value (Python's None, a missing row) is the empty tuple,    *)
(* a present one the tuple of length one.                                  *)
(***************************************************************************)
None == <<>>
Some(x) == <<x>>
NULL == "NULL"
DefaultClient == "llama3.1"

\* WHERE sentence_hash = ? AND response_type = ? AND (custom_prompt = ? OR
\* (custom_prompt IS NULL AND ? IS NULL))
MatchesResponse(row, sentence_hash, response_type, custom_prompt) ==
    /\ row.sentence_hash = sentence_hash
    /\ row.response_type = response_type
    /\ row.custom_prompt = custom_prompt

\* The positions of the rows a query selects, in rowid order
MatchingRows(rows, sentence_hash, response_type, custom_prompt) ==
    {i \in 1..Len(rows) :
        MatchesResponse(rows[i], sentence_hash, response_type, custom_prompt)}

Min(S) == CHOOSE x \in S : \A y \in S : x <= y

\* save_ai_response without the lookup of the existing row: every call
\* inserts a row of version 1
save_ai_response_always_insert(rows, seq, sentence_text, video_filename, start_time, end_time, response_type, ai_response, ai_client, custom_prompt) ==
    [rows |-> Append(rows,
                [id |-> seq + 1,
                 sentence_hash |-> _get_sentence_hash(sentence_text, video_filename, start_time),
                 sentence_text |-> sentence_text,
                 video_filename |-> video_filename,
                 start_time |-> start_time,
                 end_time |-> end_time,
                 response_type |-> response_type,
                 ai_response |-> ai_response,
                 ai_client |-> ai_client,
                 custom_prompt |-> custom_prompt,
                 is_edited |-> FALSE,
                 edited_text |-> NULL,
                 version |-> 1]),
     seq |-> seq + 1,
     response_id |-> seq + 1]

\* save_ai_response on the table rows with AUTOINCREMENT counter seq: the
\* first matching row gets the new body and client, version + 1 and its edit
\* cleared; without a matching row a row of version 1 is inserted.
\* The result is the table, the counter and the id of the row written.
save_ai_response(rows, seq, sentence_text, video_filename, start_time, end_time, response_type, ai_response, ai_client, custom_prompt) ==
    LET sentence_hash == _get_sentence_hash(sentence_text, video_filename, start_time)
        result == MatchingRows(rows, sentence_hash, response_type, custom_prompt)
    IN  IF result # {}
        THEN LET i == Min(result)
             IN  [rows |-> [rows EXCEPT ![i] =
                              [@ EXCEPT !.ai_response = ai_response,
                                        !.ai_client = ai_client,
                                        !.version = @ + 1,
                                        !.is_edited = FALSE,
                                        !.edited_text = NULL]],
                  seq |-> seq,
                  response_id |-> rows[i].id]
        ELSE [rows |-> Append(rows,
                          [id |-> seq + 1,
                           sentence_hash |-> sentence_hash,
                           sentence_text |-> sentence_text,
                           video_filename |-> video_filename,
                           start_time |-> start_time,
                           end_time |-> end_time,
                           response_type |-> response_type,
                           ai_response |-> ai_response,
                           ai_client |-> ai_client,
                           custom_prompt |-> custom_prompt,
                           is_edited |-> FALSE,
                           edited_text |-> NULL,
                           version |-> 1]),
              seq |-> seq + 1,
              response_id |-> seq + 1]

\* get_ai_response: the matching row of the highest version (ORDER BY version
\* DESC LIMIT 1), None without a matching row
get_ai_response(rows, sentence_text, video_filename, start_time, response_type, custom_prompt) ==
    LET sentence_hash == _get_sentence_hash(sentence_text, video_filename, start_time)
        result == MatchingRows(rows, sentence_hash, response_type, custom_prompt)
    IN  IF result = {} THEN None
        ELSE Some(rows[Min({i \in result :
                              \A j \in result : rows[j].version <= rows[i].version})])

\* update_ai_response: every matching row is marked edited and gets the
\* edited text; the result is the table and whether a row was updated
update_ai_response(rows, sentence_text, video_filename, start_time, response_type, edited_text, custom_prompt) ==
    LET sentence_hash == _get_sentence_hash(sentence_text, video_filename, start_time)
        result == MatchingRows(rows, sentence_hash, response_type, custom_prompt)
    IN  [rows |-> [i \in 1..Len(rows) |->
                      IF i \in result
                      THEN [rows[i] EXCEPT !.is_edited = TRUE,
                                           !.edited_text = edited_text]
                      ELSE rows[i]],
         updated |-> result # {}]

\* delete_ai_response: every matching row is deleted; the result is the
\* table and whether a row was deleted
delete_ai_response(rows, sentence_text, video_filename, start_time, response_type, custom_prompt) ==
    LET sentence_hash == _get_sentence_hash(sentence_text, video_filename, start_time)
    IN  [rows |-> SelectSeq(rows, LAMBDA row :
                     ~MatchesResponse(row, sentence_hash, response_type, custom_prompt)),
         deleted |-> MatchingRows(rows, sentence_hash, response_type, custom_prompt) # {}]

\* save_video_state at time now on the video_processing_state table (one
\* optional row per filename) with the file on disk having the given
\* content: a row whose file_hash differs is reset to not completed, a row of
\* the same file_hash only gets the count, a missing row is inserted not
\* completed
save_video_state(states, video_filename, content, sentences_count, now) ==
    LET file_hash == _get_file_hash(content)
        existing == states[video_filename]
    IN  IF existing # None
        THEN IF existing[1].file_hash # file_hash
             THEN [states EXCEPT ![video_filename] =
                     Some([file_hash |-> file_hash,
                           sentences_extracted |-> sentences_count,
                           processing_completed |-> FALSE,
                           last_processed |-> now])]
             ELSE [states EXCEPT ![video_filename] =
                     Some([existing[1] EXCEPT
                              !.sentences_extracted = sentences_count,
                              !.last_processed = now])]
        ELSE [states EXCEPT ![video_filename] =
                 Some([file_hash |-> file_hash,
                       sentences_extracted |-> sentences_count,
                       processing_completed |-> FALSE,
                       last_processed |-> now])]

\* UPDATE video_processing_state SET processing_completed = TRUE,
\* sentences_extracted = ? WHERE video_filename = ?
MarkCompleted(states, video_filename, sentences_count) ==
    IF states[video_filename] = None THEN states
    ELSE [states EXCEPT ![video_filename] =
             Some([@[1] EXCEPT !.processing_completed = TRUE,
                               !.sentences_extracted = sentences_count])]

\* get_video_state(...)['processing_completed'], FALSE without a row
processing_completed(states, video_filename) ==
    /\ states[video_filename] # None
    /\ states[video_filename][1].processing_completed

RECURSIVE OrderByLastProcessedDesc(_, _)
\* The filenames of the set in the order of ORDER BY last_processed DESC
\* (every call writes to one row only, so no two rows have the same time)
OrderByLastProcessedDesc(states, filenames) ==
    IF filenames = {} THEN <<>>
    ELSE LET latest == CHOOSE f \in filenames : \A g \in filenames :
                           states[g][1].last_processed <= states[f][1].last_processed
         IN  <<latest>> \o OrderByLastProcessedDesc(states, filenames \ {latest})

\* get_all_video_states: the filenames that have a row, the last processed first
get_all_video_states(states) ==
    OrderByLastProcessedDesc(states, {f \in DOMAIN states : states[f] # None})

(***************************************************************************)
(* VideoProcessor: deduplication against the stored corpus and the copier  *)
(***************************************************************************)
\* dict.get(field, default)
Get(dict, field, default) == IF field \in DOMAIN dict THEN dict[field] ELSE default

\* _count_ai_responses_for_sentence: one for a stored translation plus one
\* for a stored grammar explanation
_count_ai_responses_for_sentence(rows, sentence_text, video_filename, start_time) ==
    (IF get_ai_response(rows, sentence_text, video_filename, start_time,
                        "translation", NULL) # None THEN 1 ELSE 0)
    + (IF get_ai_response(rows, sentence_text, video_filename, start_time,
                          "grammar", NULL) # None THEN 1 ELSE 0)

RECURSIVE MapVideoSentences(_, _, _, _)
\* The inner loop of _get_existing_sentences_map: a normalized text that is
\* not yet a key is entered with this video as its source
MapVideoSentences(sentences_map, video_sentences, filename, rows) ==
    IF video_sentences = <<>> THEN sentences_map
    ELSE LET sentence == Head(video_sentences)
             normalized_text == normalized(sentence.text)
         IN  MapVideoSentences(
                 IF normalized_text \in DOMAIN sentences_map
                 THEN sentences_map
                 ELSE sentences_map @@
                      (normalized_text :>
                         [video_filename |-> filename,
                          ai_count |-> _count_ai_responses_for_sentence(
                                          rows, sentence.text, filename,
                                          sentence.start_time),
                          original_text |-> sentence.text,
                          start_time |-> sentence.start_time]),
                 Tail(video_sentences), filename, rows)

RECURSIVE MapVideos(_, _, _, _)
\* The outer loop of _get_existing_sentences_map over get_all_videos()
MapVideos(sentences_map, all_videos, trs, rows) ==
    IF all_videos = <<>> THEN sentences_map
    ELSE LET video == Head(all_videos)
             segments == get_video_segments(trs, video.id)
             video_sentences == _split_text_simple(segments)
         IN  MapVideos(MapVideoSentences(sentences_map, video_sentences,
                                         video.filename, rows),
                       Tail(all_videos), trs, rows)

\* _get_existing_sentences_map: {normalized_text: {video_filename, ai_count,
\* original_text, start_time}} over every stored video, the newest first
_get_existing_sentences_map(vids, trs, rows) ==
    MapVideos(<<>>, get_all_videos(vids), trs, rows)

\* deduplicate_with_existing_sentences, given the map it has loaded
deduplicate_with_existing_sentences(new_sentences, existing_sentences_map) ==
    [i \in 1..Len(new_sentences) |->
        LET sentence == new_sentences[i]
            normalized_text == normalized(sentence.text)
        IN  IF normalized_text \in DOMAIN existing_sentences_map
            THEN LET existing_data == existing_sentences_map[normalized_text]
                 IN  sentence @@
                     [has_existing_ai |-> TRUE,
                      existing_ai_source |-> existing_data.video_filename,
                      ai_responses_count |-> existing_data.ai_count]
            ELSE sentence @@ [has_existing_ai |-> FALSE]]

\* _find_original_sentence: the first sentence of the source video whose
\* normalized text equals the target's, None without one
_find_original_sentence(vids, trs, sentence_text, source_video) ==
    LET video_id == VideoId(vids, source_video)
        sentences == IF video_id = 0 THEN <<>>
                     ELSE _split_text_simple(get_video_segments(trs, video_id))
        normalized_target == normalized(sentence_text)
        hits == {i \in 1..Len(sentences) :
                    normalized(sentences[i].text)
                        = normalized_target}
    IN  IF hits = {} THEN None ELSE Some(sentences[Min(hits)])

\* The copy of one response type for one duplicate sentence. st is the
\* copier's progress: the table and its counter, the number of
\* save_ai_response calls made, whether one of them raised, and the copies
\* made (source sentence, target sentence, type, id of the row written).
\* The call number fail_at raises.
CopyResponse(st, sentence, target_video_filename, source_video, original_sentence_data, response_type, fail_at) ==
    LET response == get_ai_response(st.rows, original_sentence_data.text,
                                    source_video,
                                    original_sentence_data.start_time,
                                    response_type, NULL)
    IN  IF st.raised \/ response = None THEN st
        ELSE IF st.calls + 1 = fail_at
             THEN [st EXCEPT !.calls = @ + 1, !.raised = TRUE]
             ELSE LET saved == save_ai_response(
                                  st.rows, st.seq, sentence.text,
                                  target_video_filename, sentence.start_time,
                                  sentence.end_time, response_type,
                                  response[1].ai_response, response[1].ai_client,
                                  NULL)
                  IN  [rows |-> saved.rows,
                       seq |-> saved.seq,
                       calls |-> st.calls + 1,
                       raised |-> FALSE,
                       copied |-> Append(st.copied,
                           [source_text |-> original_sentence_data.text,
                            source_video |-> source_video,
                            source_start |-> original_sentence_data.start_time,
                            target_text |-> sentence.text,
                            target_video |-> target_video_filename,
                            target_start |-> sentence.start_time,
                            response_type |-> response_type,
                            response_id |-> saved.response_id])]

RECURSIVE CopyLoop(_, _, _, _, _, _)
\* The loop of copy_ai_responses_for_duplicates; an exception ends it
CopyLoop(st, enhanced_sentences, target_video_filename, vids, trs, fail_at) ==
    IF enhanced_sentences = <<>> \/ st.raised THEN st
    ELSE LET sentence == Head(enhanced_sentences)
             rest == Tail(enhanced_sentences)
         IN  IF Get(sentence, "has_existing_ai", FALSE)
                /\ Get(sentence, "ai_responses_count", 0) > 0
             THEN LET source_video == sentence.existing_ai_source
                      original_sentence_data ==
                          _find_original_sentence(vids, trs, sentence.text, source_video)
                  IN  IF original_sentence_data = None
                      THEN CopyLoop(st, rest, target_video_filename, vids, trs, fail_at)
                      ELSE CopyLoop(
                             CopyResponse(
                               CopyResponse(st, sentence, target_video_filename,
                                            source_video, original_sentence_data[1],
                                            "translation", fail_at),
                               sentence, target_video_filename, source_video,
                               original_sentence_data[1], "grammar", fail_at),
                             rest, target_video_filename, vids, trs, fail_at)
             ELSE CopyLoop(st, rest, target_video_filename, vids, trs, fail_at)

\* copy_ai_responses_for_duplicates: the translation and the grammar
\* explanation of the original of every duplicate with annotations are
\* saved under the sentence of the target video. The exception of a
\* save_ai_response call (the call number fail_at, 0 for none) is caught
\* after the loop: the rows written before it stay.
copy_ai_responses_for_duplicates(enhanced_sentences, target_video_filename, vids, trs, rows, seq, fail_at) ==
    CopyLoop([rows |-> rows, seq |-> seq, calls |-> 0, raised |-> FALSE,
              copied |-> <<>>],
             enhanced_sentences, target_video_filename, vids, trs, fail_at)

(***************************************************************************)
(* EnhancedVideoProcessor: scene grouping, frame extraction, persistence   *)
(***************************************************************************)
silence_threshold == RInt(5)
min_group_duration == RInt(10)
MaxFramesPerSegment == 2

\* f"{x:.1f}" for x >= 0
Fmt1(x) ==
    LET t == (2 * 10 * x.n + x.d) \div (2 * x.d)
    IN  Digits(t \div 10) \o <<".">> \o Digits(t % 10)

\* int(x) for x >= 0
RFloor(x) == x.n \div x.d

\* _create_group without the check of the minimum duration
_create_group_any_duration(segments, start_time) ==
    IF segments = <<>> THEN None
    ELSE LET end_time == segments[Len(segments)].end_time
             duration == RSub(end_time, start_time)
             combined_text ==
                 join(split(join([i \in 1..Len(segments) |-> strip(segments[i].text)])))
         IN  Some([group_start_time |-> start_time,
                   group_end_time |-> end_time,
                   group_duration |-> duration,
                   segments_count |-> Len(segments),
                   combined_text |-> combined_text,
                   word_count |-> Len(split(combined_text)),
                   segments |-> segments,
                   group_id |-> Fmt1(start_time) \o <<"_">> \o Fmt1(end_time),
                   pause_before |->
                       IF Len(segments) > 1
                       THEN RSub(segments[1].start_time, start_time)
                       ELSE RInt(0)])

\* _create_group: None for a group shorter than min_group_duration
\* (avg_confidence, which is 0.0 for segments without 'confidence', is left out)
_create_group(segments, start_time) ==
    IF segments = <<>> THEN None
    ELSE LET end_time == segments[Len(segments)].end_time
             duration == RSub(end_time, start_time)
             combined_text ==
                 join(split(join([i \in 1..Len(segments) |-> strip(segments[i].text)])))
         IN  IF RLess(duration, min_group_duration) THEN None
             ELSE Some([group_start_time |-> start_time,
                        group_end_time |-> end_time,
                        group_duration |-> duration,
                        segments_count |-> Len(segments),
                        combined_text |-> combined_text,
                        word_count |-> Len(split(combined_text)),
                        segments |-> segments,
                        group_id |-> Fmt1(start_time) \o <<"_">> \o Fmt1(end_time),
                        pause_before |->
                            IF Len(segments) > 1
                            THEN RSub(segments[1].start_time, start_time)
                            ELSE RInt(0)])

RECURSIVE GroupLoop_longer_pause_only(_, _, _, _, _)
\* The loop with a boundary only at a pause longer than the threshold
GroupLoop_longer_pause_only(segments, i, groups, current_group, current_group_start) ==
    IF i > Len(segments)
    THEN groups \o _create_group(current_group, current_group_start)
    ELSE LET segment == segments[i]
         IN  IF current_group = <<>>
             THEN GroupLoop_longer_pause_only(segments, i + 1, groups, <<segment>>,
                                              segment.start_time)
             ELSE IF RLess(silence_threshold,
                           RSub(segment.start_time, segments[i - 1].end_time))
                  THEN GroupLoop_longer_pause_only(segments, i + 1,
                           groups \o _create_group(current_group, current_group_start),
                           <<segment>>, segment.start_time)
                  ELSE GroupLoop_longer_pause_only(segments, i + 1, groups,
                           Append(current_group, segment), current_group_start)

RECURSIVE GroupLoop(_, _, _, _, _)
\* The loop of group_segments_by_silence from segment i on
GroupLoop(segments, i, groups, current_group, current_group_start) ==
    IF i > Len(segments)
    THEN groups \o _create_group(current_group, current_group_start)
    ELSE LET segment == segments[i]
         IN  IF current_group = <<>>
             THEN GroupLoop(segments, i + 1, groups, <<segment>>, segment.start_time)
             ELSE IF RLeq(silence_threshold,
                          RSub(segment.start_time, segments[i - 1].end_time))
                  THEN GroupLoop(segments, i + 1,
                                 groups \o _create_group(current_group, current_group_start),
                                 <<segment>>, segment.start_time)
                  ELSE GroupLoop(segments, i + 1, groups,
                                 Append(current_group, segment), current_group_start)

\* group_segments_by_silence: segments[0]['start_time'] raises KeyError for
\* a segment that has Whisper's keys 'start' and 'end' only
group_segments_by_silence(segments) ==
    IF segments = <<>> THEN [raised |-> FALSE, groups |-> <<>>]
    ELSE IF ~HasDbTimes(segments[1]) THEN [raised |-> TRUE, groups |-> <<>>]
    ELSE [raised |-> FALSE,
          groups |-> GroupLoop(segments, 1, <<>>, <<>>, segments[1].start_time)]

\* The frames extract_key_frames takes of one segment when every read of
\* the capture succeeds; frame_path is output_dir / 
\* f"{video_name}_seg{segment_idx:03d}_frame{frame_idx:02d}.jpg"
SegmentFrames(video_name, segment, segment_idx) ==
    LET start_time == segment.start_time
        duration == RSub(segment.end_time, start_time)
        half == RFloor(RMul(duration, Rat(1, 2)))
        frames_to_extract ==
            IF MaxFramesPerSegment < (IF half > 1 THEN half ELSE 1)
            THEN MaxFramesPerSegment
            ELSE (IF half > 1 THEN half ELSE 1)
        frame_time(frame_idx) ==
            IF frames_to_extract = 1
            THEN RAdd(start_time, RMul(duration, Rat(1, 2)))
            ELSE RAdd(start_time,
                      RMul(RMul(duration, Rat(1, frames_to_extract + 1)),
                           RInt(frame_idx + 1)))
    IN  [k \in 1..frames_to_extract |->
            [segment_index |-> segment_idx,
             frame_index |-> k - 1,
             timestamp |-> frame_time(k - 1),
             frame_path |-> <<video_name, segment_idx, k - 1>>]]

RECURSIVE extract_key_frames(_, _, _, _)
\* extract_key_frames of the segments from index segment_idx (0-based) on;
\* with an unreadable capture no frame is returned
extract_key_frames(video_name, segments, segment_idx, readable) ==
    IF ~readable \/ segment_idx >= Len(segments) THEN <<>>
    ELSE SegmentFrames(video_name, segments[segment_idx + 1], segment_idx)
         \o extract_key_frames(video_name, segments, segment_idx + 1, readable)

\* What the decoder does at one timestamp: the read returns a frame, the
\* read returns ret = False, or a call made for the timestamp raises
DecoderOutcomes == {"ok", "no_frame", "raises"}

RECURSIVE FramesLoop(_, _, _, _)
\* The loops of extract_key_frames over the planned timestamps from the k-th
\* on: a read without a frame is skipped, an exception is caught by the
\* handler around the whole body, which returns []
FramesLoop(planned, k, frames_data, outcomes) ==
    IF k > Len(planned) THEN frames_data
    ELSE IF outcomes[k] = "raises" THEN <<>>
    ELSE IF outcomes[k] = "no_frame"
         THEN FramesLoop(planned, k + 1, frames_data, outcomes)
         ELSE FramesLoop(planned, k + 1, Append(frames_data, planned[k]), outcomes)

\* The timestamps extract_key_frames visits for the segments, in order
PlannedFrames(video_name, segments) ==
    extract_key_frames(video_name, segments, 0, TRUE)

\* extract_key_frames when the decoder behaves as outcomes says, timestamp
\* by timestamp
extract_key_frames_decoding(video_name, segments, outcomes) ==
    FramesLoop(PlannedFrames(video_name, segments), 1, <<>>, outcomes)

RECURSIVE AllFrames(_, _, _)
\* all_frames: the frames of the jobs submitted to the pool, one per group
AllFrames(video_name, groups, readable) ==
    IF groups = <<>> THEN <<>>
    ELSE extract_key_frames(video_name, Head(groups).segments, 0, readable)
         \o AllFrames(video_name, Tail(groups), readable)

\* The names bound at module level of enhanced_video_processor.py
ModuleGlobals ==
    {"cv2", "np", "logging", "base64", "json", "Path", "List", "Dict", "Tuple",
     "Optional", "time", "datetime", "threading", "ThreadPoolExecutor",
     "as_completed", "AudioExtractor", "Transcriber", "DatabaseManager",
     "DataManager"}

\* _create_extended_tables evaluates the global name sqlite3, which raises
\* NameError when the module does not bind it
_create_extended_tables_raises == "sqlite3" \notin ModuleGlobals

RECURSIVE GroupSegmentRows(_, _, _)
\* The group_segments rows of the groups from index g (1-based) on; the
\* group of index g gets the segment_groups id first_id + g - 1
GroupSegmentRows(groups, g, first_id) ==
    IF g > Len(groups) THEN <<>>
    ELSE [k \in 1..Len(groups[g].segments) |->
             [group_id |-> first_id + g - 1,
              segment_index |-> k - 1,
              start_time |-> SegStart(groups[g].segments[k]),
              end_time |-> SegEnd(groups[g].segments[k]),
              text |-> groups[g].segments[k].text]]
         \o GroupSegmentRows(groups, g + 1, first_id)

\* _save_groups_and_frames on the tables segment_groups, group_segments and
\* video_frames: one transaction that inserts a row per group, per segment
\* of a group and per frame, and removes nothing. Any exception, the one of
\* _create_extended_tables included, is caught and leaves the tables as
\* they were.
_save_groups_and_frames(tables, video_id, video_filename, groups, frames) ==
    IF _create_extended_tables_raises THEN tables
    ELSE LET first_id == Len(tables.segment_groups) + 1
             new_groups ==
                 [g \in 1..Len(groups) |->
                     [id |-> first_id + g - 1,
                      video_id |-> video_id,
                      video_filename |-> video_filename,
                      group_index |-> g - 1,
                      group_start_time |-> groups[g].group_start_time,
                      group_end_time |-> groups[g].group_end_time,
                      group_duration |-> groups[g].group_duration,
                      segments_count |-> groups[g].segments_count,
                      combined_text |-> groups[g].combined_text,
                      word_count |-> groups[g].word_count]]
             all_groups == tables.segment_groups \o new_groups
             containing(frame_time) ==
                 {i \in 1..Len(all_groups) :
                     /\ all_groups[i].video_id = video_id
                     /\ RLeq(all_groups[i].group_start_time, frame_time)
                     /\ RLeq(frame_time, all_groups[i].group_end_time)}
         IN  [segment_groups |-> all_groups,
              group_segments |->
                  tables.group_segments \o GroupSegmentRows(groups, 1, first_id),
              video_frames |->
                  tables.video_frames \o
                  [k \in 1..Len(frames) |->
                      [video_id |-> video_id,
                       group_id |-> IF containing(frames[k].timestamp) = {}
                                    THEN None
                                    ELSE Some(all_groups[
                                             Min(containing(frames[k].timestamp))].id),
                       segment_index |-> frames[k].segment_index,
                       frame_index |-> frames[k].frame_index,
                       timestamp |-> frames[k].timestamp,
                       frame_path |-> frames[k].frame_path]]]

(***************************************************************************)
(* Bounds of the exploration                                               *)
(***************************************************************************)
MaxRuns == 2
MaxWrites == 1
MaxChanges == 1
MaxCopyFaultPos == 2
MaxSentencePos == 2
MaxReuseRuns == 3
MaxReuseWrites == 2
MaxReusePos == 1

\* The bodies the AI backend returns and the texts a user edits in
AiBodies == {"body1", "body2"}
EditedTexts == {"edit1"}
ResponseTypes == {"translation", "grammar"}

\* The background threads of the window that save AI responses
Threads == {"t1", "t2"}

(***************************************************************************)
(* State                                                                   *)
(***************************************************************************)
VARIABLES
    files,                   \* the content of each video file on disk
    videos,                  \* table videos: filenames in rowid order
    transcriptions,          \* tables transcriptions and segments
    ai_responses,            \* table ai_responses in rowid order
    ai_seq,                  \* AUTOINCREMENT counter of ai_responses
    video_processing_state,  \* table video_processing_state
    extended,                \* segment_groups, group_segments, video_frames
    ret,                     \* what the last call returned
    obs,                     \* history: the last call and the state before it
    writer,                  \* history: who wrote each ai_responses row last
    copies,                  \* history: the copies the copier has made
    processed,               \* history: the successfully processed videos, in order
    grouped,                 \* history: videos whose scenes and frames were computed
    runs, writes, changes,   \* the numbers of calls made
    call,                    \* the last call of a function taken on its own
    pool,                    \* the frame extraction pool of one enhanced run
    threads                  \* the background threads saving AI responses

vars == <<files, videos, transcriptions, ai_responses, ai_seq,
          video_processing_state, extended, ret, obs, writer, copies,
          processed, grouped, runs, writes, changes, call, pool, threads>>

Init ==
    /\ files \in [VideoFiles -> Contents]
    /\ videos = <<>>
    /\ transcriptions = <<>>
    /\ ai_responses = <<>>
    /\ ai_seq = 0
    /\ video_processing_state = [v \in VideoFiles |-> None]
    /\ extended = [segment_groups |-> <<>>, group_segments |-> <<>>,
                   video_frames |-> <<>>]
    /\ ret = [op |-> "none"]
    /\ obs = [op |-> "none"]
    /\ writer = <<>>
    /\ copies = {}
    /\ processed = <<>>
    /\ grouped = {}
    /\ runs = 0
    /\ writes = 0
    /\ changes = 0
    /\ call = [op |-> "none"]
    /\ pool = [pc |-> "idle"]
    /\ threads = [t \in Threads |-> [pc |-> "idle"]]

(***************************************************************************)
(* Helpers of the actions                                                  *)
(***************************************************************************)
\* The sentences the application shows for a stored video
\* (load_sentences_for_video): the split of all its stored segments
SentencesOf(vids, trs, filename) ==
    IF VideoId(vids, filename) = 0 THEN <<>>
    ELSE split_text_into_sentences(get_video_segments(trs, VideoId(vids, filename)))

\* The history of who wrote a row, after the rows of the given ids were
\* written by name
WriterAfter(w, seq, ids, name) ==
    [id \in 1..seq |-> IF id \in ids THEN name
                       ELSE IF id <= Len(w) THEN w[id] ELSE name]

\* Whether the stored file_hash of the video differs from the file's
HashChanged(states, filename, content) ==
    /\ states[filename] # None
    /\ states[filename][1].file_hash # _get_file_hash(content)

\* The injected faults of process_single_video: the step that raises
FatalFaults ==
    {"extract_audio", "transcribe_audio", "add_transcription",
     "save_video_state", "mark_completed"}
SwallowedFaults ==
    {"existing_sentences_map", "find_original_sentence", "save_ai_response"}
Faults == {"none"} \cup FatalFaults \cup SwallowedFaults

(***************************************************************************)
(* VideoProcessor.process_single_video, one call from start to return, on  *)
(* the store db = [videos, transcriptions, ai_responses, ai_seq,           *)
(* video_processing_state] at time now. fault is the step that fails,      *)
(* fail_at the number of the copier's save_ai_response call that raises.   *)
(* When save_video_state fails in step 8 it fails in the except block too, *)
(* where its exception is ignored. Each step hands its result to the next. *)
(***************************************************************************)
\* Steps 8 and 9, the except block and the returned result
process_single_video_finish(db, filename, content, fault, now, added, trs, enhanced_sentences, copier) ==
    LET before_store == fault \in {"extract_audio", "transcribe_audio",
                                   "add_transcription"}
        flagged == {i \in 1..Len(enhanced_sentences) :
                       Get(enhanced_sentences[i], "has_existing_ai", FALSE)}
        reused == {i \in flagged :
                       Get(enhanced_sentences[i], "ai_responses_count", 0) > 0}
        \* 8. save_video_state, 9. processing_completed = TRUE
        saved_state == save_video_state(db.video_processing_state, filename,
                                        content, Len(enhanced_sentences), now)
        \* except: save_video_state(sentences_count=0), its failure ignored
        handler(states) ==
            IF fault # "save_video_state"
            THEN save_video_state(states, filename, content, 0, now)
            ELSE states
    IN  [videos |-> added.videos,
         transcriptions |-> IF before_store THEN db.transcriptions ELSE trs,
         ai_responses |-> IF before_store THEN db.ai_responses ELSE copier.rows,
         ai_seq |-> IF before_store THEN db.ai_seq ELSE copier.seq,
         video_processing_state |->
             IF before_store \/ fault = "save_video_state"
             THEN handler(db.video_processing_state)
             ELSE IF fault = "mark_completed" THEN handler(saved_state)
             ELSE MarkCompleted(saved_state, filename, Len(enhanced_sentences)),
         result |-> [op |-> "process_single_video",
                     filename |-> filename,
                     success |-> fault \notin FatalFaults,
                     sentences_count |->
                         IF before_store THEN 0 ELSE Len(enhanced_sentences),
                     duplicates_found |->
                         IF before_store THEN 0 ELSE Cardinality(flagged),
                     ai_reused |-> IF before_store THEN 0 ELSE Cardinality(reused)],
         copied |-> IF before_store THEN <<>> ELSE copier.copied,
         copier_raised |-> ~before_store /\ copier.raised]

\* The videos _find_original_sentence reads: when its database read raises
\* it returns None for every sentence, as it does when the source video is
\* not among the videos
OriginVideos(fault, vids) ==
    IF fault = "find_original_sentence" THEN <<>> ELSE vids

\* Step 7: the copier
process_single_video_copy(db, filename, content, fault, fail_at, now, added, trs, enhanced_sentences) ==
    process_single_video_finish(db, filename, content, fault, now, added, trs,
        enhanced_sentences,
        copy_ai_responses_for_duplicates(enhanced_sentences, filename,
            OriginVideos(fault, added.videos), trs, db.ai_responses, db.ai_seq,
            fail_at))

\* Steps 5 and 6: the local split and the deduplication against the corpus,
\* whose map is empty when loading it fails
process_single_video_dedup(db, filename, content, fault, fail_at, now, added, trs) ==
    process_single_video_copy(db, filename, content, fault, fail_at, now, added, trs,
        deduplicate_with_existing_sentences(
            split_text_into_sentences(WhisperSegments(content)),
            IF fault = "existing_sentences_map" THEN <<>>
            ELSE _get_existing_sentences_map(added.videos, trs, db.ai_responses)))

\* Steps 2 to 4: extract_audio, transcribe_audio, add_transcription
process_single_video_store(db, filename, content, fault, fail_at, now, added) ==
    process_single_video_dedup(db, filename, content, fault, fail_at, now, added,
        add_transcription(db.transcriptions, added.video_id,
                          WhisperSegments(content)))

\* Step 1: add_video
process_single_video(db, filename, content, fault, fail_at, now) ==
    process_single_video_store(db, filename, content, fault, fail_at, now,
                               add_video(db.videos, filename))

\* The store as the processors see it
Store == [videos |-> videos, transcriptions |-> transcriptions,
          ai_responses |-> ai_responses, ai_seq |-> ai_seq,
          video_processing_state |-> video_processing_state]

\* The state after a call of process_single_video with outcome done
ProcessSingleVideoDone(filename, fault, done) ==
    /\ videos' = done.videos
    /\ transcriptions' = done.transcriptions
    /\ ai_responses' = done.ai_responses
    /\ ai_seq' = done.ai_seq
    /\ video_processing_state' = done.video_processing_state
    /\ ret' = done.result
    /\ obs' = [op |-> "process_single_video",
               filename |-> filename,
               failed |-> (IF fault \in FatalFaults THEN {"fatal"} ELSE {})
                          \cup (IF fault = "existing_sentences_map"
                                THEN {"deduplicate_with_existing_sentences"} ELSE {})
                          \cup (IF fault = "find_original_sentence"
                                THEN {"_find_original_sentence"} ELSE {})
                          \cup (IF done.copier_raised
                                THEN {"copy_ai_responses_for_duplicates"} ELSE {}),
               hash_changed |-> HashChanged(video_processing_state, filename,
                                            files[filename]),
               completed_before |->
                   processing_completed(video_processing_state, filename),
               rows_before |-> ai_responses,
               stored_before |-> Len(transcriptions),
               processed_before |-> processed]
    /\ writer' = WriterAfter(writer, done.ai_seq,
                             {done.copied[i].response_id : i \in 1..Len(done.copied)},
                             "copier")
    /\ copies' = copies \cup
                 {[source_text |-> done.copied[i].source_text,
                   source_video |-> done.copied[i].source_video,
                   source_start |-> done.copied[i].source_start,
                   target_text |-> done.copied[i].target_text,
                   target_video |-> done.copied[i].target_video,
                   target_start |-> done.copied[i].target_start] :
                      i \in 1..Len(done.copied)}
    /\ processed' = IF done.result.success THEN Append(processed, filename)
                    ELSE processed
    /\ runs' = runs + 1
    /\ UNCHANGED <<call, pool, threads>>
    /\ UNCHANGED <<files, extended, grouped, writes, changes>>

ProcessSingleVideo(filename, fault, fail_at) ==
    /\ (fault = "save_ai_response") <=> (fail_at > 0)
    /\ ProcessSingleVideoDone(filename, fault,
           process_single_video(Store, filename, files[filename], fault, fail_at,
                                runs + 1))

(***************************************************************************)
(* EnhancedVideoProcessor.process_single_video_enhanced, one call from     *)
(* start to return. readable is whether the frame reads succeed.           *)
(***************************************************************************)
EnhancedFaults ==
    {"none", "extract_audio", "transcribe_audio", "add_transcription",
     "save_video_state"}

ProcessSingleVideoEnhanced(filename, fault, readable) ==
    /\ LET content == files[filename]
           added == add_video(videos, filename)
           video_id == added.video_id
           segments == WhisperSegments(content)
           before_store == fault \in {"extract_audio", "transcribe_audio",
                                      "add_transcription"}
           trs == add_transcription(transcriptions, video_id, segments)
           \* 5. grouping of the segments as transcribe_audio returned them
           grouping == group_segments_by_silence(segments)
           groups == grouping.groups
           \* 6. one frame job per group on the pool; a failed job adds nothing
           all_frames == AllFrames(filename, groups, readable)
           \* 7. persistence, its exception swallowed
           persisted == _save_groups_and_frames(extended, video_id, filename,
                                                groups, all_frames)
           \* 8. save_video_state; the except block saves nothing
           saved_state == save_video_state(video_processing_state, filename,
                                           content, Len(segments), runs + 1)
           raised == before_store \/ grouping.raised \/ fault = "save_video_state"
           failed == (IF raised THEN {"fatal"} ELSE {})
                     \cup (IF ~before_store /\ ~grouping.raised
                              /\ _create_extended_tables_raises
                           THEN {"_save_groups_and_frames"} ELSE {})
                     \cup (IF ~before_store /\ ~grouping.raised
                              /\ groups # <<>> /\ ~readable
                           THEN {"extract_key_frames"} ELSE {})
       IN  /\ videos' = added.videos
           /\ transcriptions' = IF before_store THEN transcriptions ELSE trs
           /\ extended' = IF before_store \/ grouping.raised THEN extended
                          ELSE persisted
           /\ video_processing_state' =
                 IF raised THEN video_processing_state ELSE saved_state
           /\ ret' = [op |-> "process_single_video_enhanced",
                      filename |-> filename,
                      success |-> ~raised,
                      groups_count |-> IF raised THEN 0 ELSE Len(groups),
                      frames_count |-> IF raised THEN 0 ELSE Len(all_frames),
                      segments_count |-> IF raised THEN 0 ELSE Len(segments)]
           /\ obs' = [op |-> "process_single_video_enhanced",
                      filename |-> filename,
                      failed |-> failed,
                      hash_changed |-> HashChanged(video_processing_state,
                                                   filename, content),
                      completed_before |->
                          processing_completed(video_processing_state, filename),
                      rows_before |-> ai_responses,
                      stored_before |-> Len(transcriptions),
                      extended_before |-> extended,
                      processed_before |-> processed]
           /\ processed' = IF ~raised THEN Append(processed, filename) ELSE processed
           /\ grouped' = IF ~before_store /\ ~grouping.raised
                         THEN grouped \cup {filename} ELSE grouped
    /\ runs' = runs + 1
    /\ UNCHANGED <<call, pool, threads>>
    /\ UNCHANGED <<files, ai_responses, ai_seq, writer, copies, writes, changes>>

(***************************************************************************)
(* The video file is replaced on disk by one of another content            *)
(***************************************************************************)
ChangeFile(filename, content) ==
    /\ content # files[filename]
    /\ files' = [files EXCEPT ![filename] = content]
    /\ changes' = changes + 1
    /\ ret' = [op |-> "none"]
    /\ obs' = [op |-> "change_file", filename |-> filename]
    /\ UNCHANGED <<call, pool, threads>>
    /\ UNCHANGED <<videos, transcriptions, ai_responses, ai_seq,
                   video_processing_state, extended, writer, copies,
                   processed, grouped, runs, writes>>

(***************************************************************************)
(* DataManager's annotation operations, called for a sentence the          *)
(* application shows                                                       *)
(***************************************************************************)
ApiObs(op, filename, sentence, response_type) ==
    [op |-> op, filename |-> filename, text |-> sentence.text,
     start_time |-> sentence.start_time, response_type |-> response_type,
     rows_before |-> ai_responses]

\* The state after save_ai_response has returned saved
SaveAiResponseDone(filename, sentence, response_type, saved) ==
    /\ ai_responses' = saved.rows
    /\ ai_seq' = saved.seq
    /\ ret' = [op |-> "save_ai_response", response_id |-> saved.response_id]
    /\ obs' = ApiObs("save_ai_response", filename, sentence, response_type)
    /\ writer' = WriterAfter(writer, saved.seq, {saved.response_id},
                             "save_ai_response")
    /\ writes' = writes + 1
    /\ UNCHANGED <<call, pool, threads>>
    /\ UNCHANGED <<files, videos, transcriptions, video_processing_state,
                   extended, copies, processed, grouped, runs, changes>>

SaveAiResponseOf(filename, sentence, response_type, body) ==
    SaveAiResponseDone(filename, sentence, response_type,
        save_ai_response(ai_responses, ai_seq, sentence.text, filename,
                         sentence.start_time, sentence.end_time,
                         response_type, body, DefaultClient, NULL))

SaveAiResponse(filename, i, response_type, body) ==
    /\ i \in 1..Len(SentencesOf(videos, transcriptions, filename))
    /\ SaveAiResponseOf(filename, SentencesOf(videos, transcriptions, filename)[i],
                        response_type, body)

\* The state after update_ai_response has returned result
UpdateAiResponseDone(filename, sentence, response_type, result) ==
    /\ ai_responses' = result.rows
    /\ ret' = [op |-> "update_ai_response", updated |-> result.updated]
    /\ obs' = ApiObs("update_ai_response", filename, sentence, response_type)
    /\ writes' = writes + 1
    /\ UNCHANGED <<call, pool, threads>>
    /\ UNCHANGED <<files, videos, transcriptions, ai_seq, video_processing_state,
                   extended, writer, copies, processed, grouped, runs, changes>>

UpdateAiResponseOf(filename, sentence, response_type, edited_text) ==
    UpdateAiResponseDone(filename, sentence, response_type,
        update_ai_response(ai_responses, sentence.text, filename,
                           sentence.start_time, response_type, edited_text, NULL))

UpdateAiResponse(filename, i, response_type, edited_text) ==
    /\ i \in 1..Len(SentencesOf(videos, transcriptions, filename))
    /\ UpdateAiResponseOf(filename, SentencesOf(videos, transcriptions, filename)[i],
                          response_type, edited_text)

\* The state after delete_ai_response has returned result
DeleteAiResponseDone(filename, sentence, response_type, result) ==
    /\ ai_responses' = result.rows
    /\ ret' = [op |-> "delete_ai_response", deleted |-> result.deleted]
    /\ obs' = ApiObs("delete_ai_response", filename, sentence, response_type)
    /\ writes' = writes + 1
    /\ UNCHANGED <<call, pool, threads>>
    /\ UNCHANGED <<files, videos, transcriptions, ai_seq, video_processing_state,
                   extended, writer, copies, processed, grouped, runs, changes>>

DeleteAiResponseOf(filename, sentence, response_type) ==
    DeleteAiResponseDone(filename, sentence, response_type,
        delete_ai_response(ai_responses, sentence.text, filename,
                           sentence.start_time, response_type, NULL))

DeleteAiResponse(filename, i, response_type) ==
    /\ i \in 1..Len(SentencesOf(videos, transcriptions, filename))
    /\ DeleteAiResponseOf(filename, SentencesOf(videos, transcriptions, filename)[i],
                          response_type)

(***************************************************************************)
(* MainWindow.generate_grammar_for_all_thread: explain_grammar for every   *)
(* sentence of every completed video, saved when the backend succeeds.     *)
(* The backend succeeds for the sentences at the positions in ok.          *)
(***************************************************************************)
MaxGrammarPos == 2

RECURSIVE GrammarSentences(_, _, _, _, _)
\* The loop over the sentences of one video from index i on; st is the
\* table, its counter and the ids of the rows written
GrammarSentences(st, sentences, i, filename, answers) ==
    IF i > Len(sentences) THEN st
    ELSE IF i \notin answers.ok
         THEN GrammarSentences(st, sentences, i + 1, filename, answers)
         ELSE LET saved == save_ai_response(
                              st.rows, st.seq, sentences[i].text, filename,
                              sentences[i].start_time, sentences[i].end_time,
                              "grammar", answers.body, DefaultClient, NULL)
              IN  GrammarSentences([rows |-> saved.rows, seq |-> saved.seq,
                                    ids |-> st.ids \cup {saved.response_id}],
                                   sentences, i + 1, filename, answers)

RECURSIVE GrammarVideos(_, _, _)
\* The loop over the completed videos
GrammarVideos(st, processed_videos, answers) ==
    IF processed_videos = <<>> THEN st
    ELSE GrammarVideos(
             GrammarSentences(st,
                 SentencesOf(videos, transcriptions, Head(processed_videos)),
                 1, Head(processed_videos), answers),
             Tail(processed_videos), answers)

\* The state after the thread has ended with the table as in done
GenerateGrammarForAllDone(done) ==
    /\ ai_responses' = done.rows
    /\ ai_seq' = done.seq
    /\ writer' = WriterAfter(writer, done.seq, done.ids, "explain_grammar")
    /\ ret' = [op |-> "generate_grammar_for_all"]
    /\ obs' = [op |-> "generate_grammar_for_all", rows_before |-> ai_responses]
    /\ writes' = writes + 1
    /\ UNCHANGED <<call, pool, threads>>
    /\ UNCHANGED <<files, videos, transcriptions, video_processing_state,
                   extended, copies, processed, grouped, runs, changes>>

\* processed_videos = [v for v in video_states if v['processing_completed']]
CompletedVideos ==
    SelectSeq(get_all_video_states(video_processing_state),
              LAMBDA f : processing_completed(video_processing_state, f))

GenerateGrammarForAll(ok, body) ==
    /\ CompletedVideos # <<>>
    /\ GenerateGrammarForAllDone(
           GrammarVideos([rows |-> ai_responses, seq |-> ai_seq, ids |-> {}],
                         CompletedVideos, [ok |-> ok, body |-> body]))

\* The steps of the whole pipeline with its faults, a bounded number of
\* calls of each kind
Next ==
    \/ /\ runs < MaxRuns
       /\ \E filename \in VideoFiles, fault \in Faults, fail_at \in 0..MaxCopyFaultPos :
             ProcessSingleVideo(filename, fault, fail_at)
    \/ /\ runs < MaxRuns
       /\ \E filename \in VideoFiles, fault \in EnhancedFaults, readable \in BOOLEAN :
             ProcessSingleVideoEnhanced(filename, fault, readable)
    \/ /\ changes < MaxChanges
       /\ \E filename \in VideoFiles, content \in Contents :
             ChangeFile(filename, content)
    \/ /\ writes < MaxWrites
       /\ \E filename \in VideoFiles, i \in 1..MaxSentencePos, body \in AiBodies :
             SaveAiResponse(filename, i, "translation", body)
    \/ /\ writes < MaxWrites
       /\ \E ok \in SUBSET (1..MaxGrammarPos), body \in AiBodies :
             GenerateGrammarForAll(ok, body)

Spec == Init /\ [][Next]_vars

\* The videos of the reuse scenarios both have speech
InitReuse ==
    /\ Init
    /\ \A filename \in VideoFiles : files[filename] # "silent"

\* The steps of the reuse scenarios: processing that succeeds or fails
\* before anything is stored, and the annotation operations
NextReuse ==
    \/ /\ runs < MaxReuseRuns
       /\ \E filename \in VideoFiles, fault \in {"none", "extract_audio"} :
             ProcessSingleVideo(filename, fault, 0)
    \/ /\ writes < MaxReuseWrites
       /\ \E filename \in VideoFiles, i \in 1..MaxReusePos,
             response_type \in ResponseTypes :
             SaveAiResponse(filename, i, response_type, "body1")
    \/ /\ writes < MaxReuseWrites
       /\ \E filename \in VideoFiles, i \in 1..MaxReusePos,
             response_type \in ResponseTypes, edited_text \in EditedTexts :
             UpdateAiResponse(filename, i, response_type, edited_text)
    \/ /\ writes < MaxReuseWrites
       /\ \E filename \in VideoFiles, i \in 1..MaxReusePos,
             response_type \in ResponseTypes :
             DeleteAiResponse(filename, i, response_type)

SpecReuse == InitReuse /\ [][NextReuse]_vars

(***************************************************************************)
(* Notions the properties share                                            *)
(***************************************************************************)
Range(seq) == {seq[i] : i \in 1..Len(seq)}

ProcessingOps == {"process_single_video", "process_single_video_enhanced"}
AnnotationOps == {"save_ai_response", "update_ai_response", "delete_ai_response"}

\* The sentences the last call of process_single_video split off the file
RunSentences == split_text_into_sentences(WhisperSegments(files[obs.filename]))

\* The sentences of the stored segments of a video
StoredSentences(filename) ==
    IF VideoId(videos, filename) = 0 THEN <<>>
    ELSE _split_text_simple(get_video_segments(transcriptions,
                                               VideoId(videos, filename)))

\* The annotation rows stored under the key of a sentence of a video
RowsOfSentence(rows, sentence, filename) ==
    {i \in 1..Len(rows) :
        rows[i].sentence_hash =
            _get_sentence_hash(sentence.text, filename, sentence.start_time)}

\* The translation stored for a sentence of a video, None without one
TranslationOf(rows, sentence, filename) ==
    get_ai_response(rows, sentence.text, filename, sentence.start_time,
                    "translation", NULL)

(***************************************************************************)
(* C1: cross-video reuse. If V1 was processed earlier and has a saved      *)
(* translation for one of its sentences, and process_single_video(V2) for  *)
(* a different video V2 then runs without any failure on a sentence S of   *)
(* equal normalized text, then on return a translation is stored under     *)
(* (S.text, V2, S.start_time) whose ai_response equals V1's.               *)
(***************************************************************************)
C1_CrossVideoReuse ==
    (obs.op = "process_single_video" /\ ret.success /\ obs.failed = {}) =>
        \A V1 \in Range(obs.processed_before) \ {obs.filename} :
            \A i \in 1..Len(RunSentences), j \in 1..Len(StoredSentences(V1)) :
                LET S == RunSentences[i]
                    original == StoredSentences(V1)[j]
                    saved == TranslationOf(obs.rows_before, original, V1)
                    copy == TranslationOf(ai_responses, S, obs.filename)
                IN  (normalized(S.text) = normalized(original.text) /\ saved # None)
                    => (copy # None /\ copy[1].ai_response = saved[1].ai_response)

(***************************************************************************)
(* C2: don't pay twice. In every reachable state, for two sentences of     *)
(* equal normalized text in different videos, no annotation row stored     *)
(* for the sentence of the later-processed video was written by a call of  *)
(* the AI backend (explain_grammar followed by save_ai_response): the      *)
(* rows of that sentence come from the copier.                             *)
(***************************************************************************)
\* The position of the first successful processing of a video
FirstProcessed(filename) == Min({i \in 1..Len(processed) : processed[i] = filename})

C2_DontPayTwice ==
    \A earlier \in Range(processed), later \in Range(processed) :
        (earlier # later /\ FirstProcessed(earlier) < FirstProcessed(later)) =>
            \A i \in 1..Len(SentencesOf(videos, transcriptions, later)),
               j \in 1..Len(SentencesOf(videos, transcriptions, earlier)) :
                LET S == SentencesOf(videos, transcriptions, later)[i]
                    original == SentencesOf(videos, transcriptions, earlier)[j]
                IN  normalized(S.text) = normalized(original.text) =>
                        \A r \in RowsOfSentence(ai_responses, S, later) :
                            writer[ai_responses[r].id] # "explain_grammar"

(***************************************************************************)
(* C3: value-copy isolation. After an annotation was copied from a         *)
(* sentence of one video to the matching sentence of a different video,    *)
(* an update_ai_response, save_ai_response or delete_ai_response applied   *)
(* to one of the two sentences leaves every annotation row of the other    *)
(* sentence as it was, field by field.                                     *)
(***************************************************************************)
\* The annotation rows of a sentence, with all their fields
AnnotationsOf(rows, text, filename, start_time) ==
    {rows[i] : i \in {k \in 1..Len(rows) :
                        rows[k].sentence_hash =
                            _get_sentence_hash(text, filename, start_time)}}

\* Whether the last annotation operation was applied to this sentence
AppliedTo(text, filename, start_time) ==
    /\ obs.op \in AnnotationOps
    /\ obs.text = text
    /\ obs.filename = filename
    /\ obs.start_time = start_time

\* The copies made from a video to a different one
CrossVideoCopies == {c \in copies : c.source_video # c.target_video}

C3_ValueCopyIsolation ==
    \A c \in CrossVideoCopies :
        /\ AppliedTo(c.target_text, c.target_video, c.target_start) =>
               AnnotationsOf(ai_responses, c.source_text, c.source_video,
                             c.source_start)
               = AnnotationsOf(obs.rows_before, c.source_text, c.source_video,
                               c.source_start)
        /\ AppliedTo(c.source_text, c.source_video, c.source_start) =>
               AnnotationsOf(ai_responses, c.target_text, c.target_video,
                             c.target_start)
               = AnnotationsOf(obs.rows_before, c.target_text, c.target_video,
                               c.target_start)

\* An annotation operation has changed the rows of the copy (of the
\* original) while the original (the copy) has its row
C3_CopyThenEdited ==
    /\ obs.op \in AnnotationOps
    /\ ai_responses # obs.rows_before
    /\ \E c \in CrossVideoCopies :
          \/ /\ AppliedTo(c.target_text, c.target_video, c.target_start)
             /\ AnnotationsOf(ai_responses, c.source_text, c.source_video,
                              c.source_start) # {}
          \/ /\ AppliedTo(c.source_text, c.source_video, c.source_start)
             /\ AnnotationsOf(ai_responses, c.target_text, c.target_video,
                              c.target_start) # {}

(***************************************************************************)
(* C4: no annotation without a match. A sentence of the processed video    *)
(* whose normalized text occurs in no sentence of any other stored video,  *)
(* and for which no annotation row of the processed video with that        *)
(* normalized text was stored before the call, has no annotation row       *)
(* after process_single_video returns.                                     *)
(***************************************************************************)
\* Whether no sentence of the given other videos has the normalized text
UnmatchedIn(S, others) ==
    \A u \in others :
        \A j \in 1..Len(StoredSentences(u)) :
            normalized(StoredSentences(u)[j].text) # normalized(S.text)

\* Whether the video had no annotation row of that normalized text
UnannotatedBefore(S, filename) ==
    \A k \in 1..Len(obs.rows_before) :
        obs.rows_before[k].video_filename = filename =>
            normalized(obs.rows_before[k].sentence_text) # normalized(S.text)

C4_NoAnnotationWithoutSource ==
    obs.op = "process_single_video" =>
        \A i \in 1..Len(RunSentences) :
            (/\ UnmatchedIn(RunSentences[i], VideoFiles \ {obs.filename})
             /\ UnannotatedBefore(RunSentences[i], obs.filename))
            => RowsOfSentence(ai_responses, RunSentences[i], obs.filename) = {}

\* The call has copied an annotation to one sentence of the video and has
\* left another, which has no match, without one
C4_CopiedOnlyToTheMatch ==
    /\ obs.op = "process_single_video"
    /\ ret.success
    /\ ret.ai_reused > 0
    /\ \E i \in 1..Len(RunSentences) :
          /\ RowsOfSentence(obs.rows_before, RunSentences[i], obs.filename) = {}
          /\ RowsOfSentence(ai_responses, RunSentences[i], obs.filename) # {}
    /\ \E i \in 1..Len(RunSentences) :
          /\ UnmatchedIn(RunSentences[i], VideoFiles \ {obs.filename})
          /\ UnannotatedBefore(RunSentences[i], obs.filename)
          /\ RowsOfSentence(ai_responses, RunSentences[i], obs.filename) = {}

\* C4 as it is worded: a sentence of the processed video whose normalized
\* text occurs in no other previously processed video has no annotation row
\* after process_single_video returns.
C4_NoAnnotationWithoutMatch ==
    obs.op = "process_single_video" =>
        \A i \in 1..Len(RunSentences) :
            UnmatchedIn(RunSentences[i],
                        Range(obs.processed_before) \ {obs.filename})
            => RowsOfSentence(ai_responses, RunSentences[i], obs.filename) = {}

(***************************************************************************)
(* C6: completed only after the whole pipeline. In every reachable state   *)
(* a video whose processing_completed flag is true has had its scene       *)
(* grouping and frame extraction run without a fatal error.                *)
(***************************************************************************)
C6_CompletedOnlyAfterPipeline ==
    \A filename \in VideoFiles :
        processing_completed(video_processing_state, filename)
            => filename \in grouped

(***************************************************************************)
(* C7: a partial failure is never reported as done. When a stage of the    *)
(* processing of a video has failed (the cross-video deduplication, the    *)
(* copying of annotations, the saving of scenes and frames, a frame job),  *)
(* the returned result does not have success = true and the call has not   *)
(* marked the video completed.                                             *)
(***************************************************************************)
C7_PartialFailureNotDone ==
    (obs.op \in ProcessingOps /\ obs.failed # {}) =>
        /\ ~ret.success
        /\ processing_completed(video_processing_state, obs.filename)
               => obs.completed_before

(***************************************************************************)
(* C8: transactional replace. After a video that had stored segments is    *)
(* processed again, its stored segments are either the new ones alone      *)
(* (every old row removed, every new row inserted) or the old ones alone   *)
(* (nothing removed, nothing inserted), never a mix of the two.            *)
(***************************************************************************)
\* The segments rows of the processed video that the call found stored
SegmentsBefore ==
    SegmentsOfVideo(SubSeq(transcriptions, 1, obs.stored_before),
                    VideoId(videos, obs.filename))

\* The segments rows of the processed video now
SegmentsAfter == SegmentsOfVideo(transcriptions, VideoId(videos, obs.filename))

\* The segments rows derived from the content the file has now
NewSegments ==
    [i \in 1..Len(WhisperSegments(files[obs.filename])) |->
        SegmentRow(WhisperSegments(files[obs.filename])[i])]

C8_TransactionalReplace ==
    (obs.op \in ProcessingOps /\ SegmentsBefore # <<>>) =>
        \/ SegmentsAfter = NewSegments
        \/ SegmentsAfter = SegmentsBefore

(***************************************************************************)
(* C9: a changed content hash invalidates what was derived. After a        *)
(* successful run on a video whose content hash differed from the stored   *)
(* one, the segments the store returns for the video are only those        *)
(* derived from the new content.                                           *)
(***************************************************************************)
C9_HashChangeInvalidates ==
    (obs.op \in ProcessingOps /\ obs.hash_changed /\ ret.success) =>
        get_video_segments(transcriptions, VideoId(videos, obs.filename))
            = SortByStart(NewSegments, <<>>)

(***************************************************************************)
(* C10: a failure leaves the completed state as it was. When               *)
(* process_single_video returns after a failure, processing_completed of   *)
(* the video has the value it had before the call.                         *)
(***************************************************************************)
C10_FailureKeepsCompleted ==
    (obs.op = "process_single_video" /\ ~ret.success) =>
        processing_completed(video_processing_state, obs.filename)
            = obs.completed_before

(***************************************************************************)
(* C19  Version-incrementing upsert                                        *)
(***************************************************************************)
\* The rows the last save_ai_response call found for its key
SavedKeyRows ==
    MatchingRows(obs.rows_before,
                 _get_sentence_hash(obs.text, obs.filename, obs.start_time),
                 obs.response_type, NULL)

\* The ids of the rows of a table
IdsOf(rows) == {rows[i].id : i \in 1..Len(rows)}

\* C19: a save_ai_response call on a key that has a row updates that row
\* (same id, version one higher) and leaves the number of rows and every
\* other row as they were; on a key without a row it inserts one row of
\* version 1 after the rows that were there; no call deletes a row.
C19_VersionIncrementingUpsert ==
    obs.op = "save_ai_response" =>
        LET before == obs.rows_before
        IN  /\ IdsOf(before) \subseteq IdsOf(ai_responses)
            /\ SavedKeyRows # {} =>
                  /\ Len(ai_responses) = Len(before)
                  /\ \E i \in SavedKeyRows :
                        /\ ai_responses[i].id = before[i].id
                        /\ ret.response_id = before[i].id
                        /\ ai_responses[i].version = before[i].version + 1
                        /\ \A j \in 1..Len(before) :
                              j # i => ai_responses[j] = before[j]
            /\ SavedKeyRows = {} =>
                  /\ Len(ai_responses) = Len(before) + 1
                  /\ SubSeq(ai_responses, 1, Len(before)) = before
                  /\ ai_responses[Len(ai_responses)].version = 1
                  /\ ai_responses[Len(ai_responses)].id = ret.response_id
                  /\ ret.response_id \notin IdsOf(before)
                  /\ MatchesResponse(ai_responses[Len(ai_responses)],
                        _get_sentence_hash(obs.text, obs.filename, obs.start_time),
                        obs.response_type, NULL)

\* A save on a key that had a row: the row is still the only one of its key
\* and has version 2
C19_SavedTwice ==
    /\ obs.op = "save_ai_response"
    /\ SavedKeyRows # {}
    /\ Len(ai_responses) = Len(obs.rows_before)
    /\ \E i \in SavedKeyRows : ai_responses[i].version = 2

(***************************************************************************)
(* C18  Only completed videos enter the corpus index                       *)
(***************************************************************************)
\* The last call was a process_single_video that built the corpus index:
\* it stored its transcription (step 4) and loaded the map (step 5)
IndexBuilt ==
    /\ obs.op = "process_single_video"
    /\ Len(transcriptions) > obs.stored_before
    /\ "deduplicate_with_existing_sentences" \notin obs.failed

\* The index that call built: the videos and segments as step 4 left them,
\* the AI responses as they were before the copier ran
IndexAtBuild ==
    _get_existing_sentences_map(videos, transcriptions, obs.rows_before)

\* Whether a video was marked completed when the index was built; the call
\* touches only the state of its own video, and only after step 5
CompletedAtBuild(filename) ==
    IF filename = obs.filename THEN obs.completed_before
    ELSE processing_completed(video_processing_state, filename)

\* C18: every entry of the corpus index a processing call builds comes from
\* a video whose processing state was marked completed when it was built.
C18_IndexOnlyCompleted ==
    IndexBuilt =>
        \A normalized_text \in DOMAIN IndexAtBuild :
            CompletedAtBuild(IndexAtBuild[normalized_text].video_filename)

(***************************************************************************)
(* The text functions of VideoProcessor taken on their own: the normaliser *)
(* and the sentence splitter, applied to bounded inputs                    *)
(***************************************************************************)
MaxTokens == 3
MaxSegments == 3

\* The non-empty sequences over S of at most n elements
SeqsUpTo(S, n) == UNION {[1..k -> S] : k \in 1..n}

\* Words of a transcript: plain words, a filler word in two spellings and
\* punctuation that stands alone or ends a word
NormTokens ==
    { <<"h","i">>, <<"o","k","!">>, <<",">>, <<"u","m">>, <<"L","i","k","e">> }

\* The texts the normaliser is given: the words above separated by blanks
NormInputs == {join(words) : words \in SeqsUpTo(NormTokens, MaxTokens)}

\* The texts of transcript segments the splitter is given: sentences that
\* differ in case or punctuation only, with and without final punctuation,
\* and a segment of two sentences
SplitTexts ==
    { <<"t","h","a","n","k"," ","y","o","u">>,
      <<"T","h","a","n","k"," ","y","o","u",".">>,
      <<"W","a","k","e"," ","u","p"," ","n","o","w",".">>,
      <<"w","a","k","e"," ","u","p"," ","N","O","W","!"," ","O","k",".">>,
      TxtWakeRun }

\* Transcripts in the format of Whisper: segment k lasts from 2(k-1) to 2k
SplitInputs ==
    {[k \in 1..Len(texts) |->
         [text |-> texts[k], start |-> RInt(2 * (k - 1)), end |-> RInt(2 * k)]] :
        texts \in SeqsUpTo(SplitTexts, MaxSegments)}

\* One call of _normalize_sentence_for_comparison, on a text of a transcript
\* or on what the previous call returned
NormalizeSentence(text) ==
    /\ \/ text \in NormInputs
       \/ /\ call.op = "_normalize_sentence_for_comparison"
          /\ text = call.output
    /\ call' = [op |-> "_normalize_sentence_for_comparison",
                input |-> text,
                output |-> _normalize_sentence_for_comparison(text)]
    /\ UNCHANGED <<files, videos, transcriptions, ai_responses, ai_seq,
                   video_processing_state, extended, ret, obs, writer, copies,
                   processed, grouped, runs, writes, changes, pool, threads>>

\* One call of split_text_into_sentences on the segments of a transcript
SplitTextIntoSentences(segments) ==
    /\ call' = [op |-> "split_text_into_sentences",
                input |-> segments,
                output |-> split_text_into_sentences(segments)]
    /\ UNCHANGED <<files, videos, transcriptions, ai_responses, ai_seq,
                   video_processing_state, extended, ret, obs, writer, copies,
                   processed, grouped, runs, writes, changes, pool, threads>>

\* The same transcripts as the store returns them (get_video_segments), with
\* the keys 'start_time' and 'end_time'
StoredInputs ==
    {[k \in 1..Len(segments) |->
         [text |-> segments[k].text, start_time |-> segments[k].start,
          end_time |-> segments[k].end]] : segments \in SplitInputs}

\* One call of _split_text_simple on the stored segments of a transcript
SplitTextSimple(segments) ==
    /\ call' = [op |-> "_split_text_simple",
                input |-> segments,
                output |-> _split_text_simple(segments)]
    /\ UNCHANGED <<files, videos, transcriptions, ai_responses, ai_seq,
                   video_processing_state, extended, ret, obs, writer, copies,
                   processed, grouped, runs, writes, changes, pool, threads>>

NextText ==
    \/ \E text \in NormInputs \cup (IF call.op = "_normalize_sentence_for_comparison" THEN {call.output} ELSE {}) :
          NormalizeSentence(text)
    \/ \E segments \in SplitInputs :
          SplitTextIntoSentences(segments)
    \/ \E segments \in StoredInputs :
          SplitTextSimple(segments)

\* The functions read nothing of the store, which stays as constructed
InitText ==
    /\ Init
    /\ \A filename \in VideoFiles : files[filename] = "silent"

SpecText == InitText /\ [][NextText]_vars

(***************************************************************************)
(* C14  Normalization idempotence                                          *)
(***************************************************************************)
\* C14: normalising what _normalize_sentence_for_comparison has returned
\* gives it back unchanged, for every input.
C14_NormalizationIdempotent ==
    call.op = "_normalize_sentence_for_comparison" =>
        _normalize_sentence_for_comparison(call.output) = call.output

(***************************************************************************)
(* C13  Dedup soundness of the splitter                                    *)
(***************************************************************************)
\* The candidate sentences of the last split_text_into_sentences call, in
\* emission order
SplitCandidates == CandidateSentences(call.input)

\* Whether the output of the last split_text_into_sentences call contains
\* a sentence
InSplitOutput(sentence) ==
    \E k \in 1..Len(call.output) : call.output[k] = sentence

\* Candidate i is the first in emission order with its normalized text
FirstOfItsText(i) ==
    \A h \in 1..(i - 1) :
        normalized(SplitCandidates[h].text) # normalized(SplitCandidates[i].text)

\* C13: of two candidate sentences of one transcript with the same
\* normalized text, the output of split_text_into_sentences does not
\* contain the later one and contains the first one emitted with that text.
C13_DedupSoundness ==
    call.op = "split_text_into_sentences" =>
        \A i, j \in 1..Len(SplitCandidates) :
            (/\ i < j
             /\ normalized(SplitCandidates[i].text) = normalized(SplitCandidates[j].text))
            => /\ ~InSplitOutput(SplitCandidates[j])
               /\ FirstOfItsText(i) => InSplitOutput(SplitCandidates[i])

(***************************************************************************)
(* The scene functions of the enhanced processor taken on their own:       *)
(* SegmentGrouper.group_segments_by_silence on segments in the format of   *)
(* the store, as the window calls it on get_video_segments                 *)
(***************************************************************************)
MaxSceneSegments == 5

\* The seconds one segment of the inputs lasts
SegmentLength == 5

\* The pauses between consecutive segments of the inputs: below the
\* threshold, equal to it and above it
Pauses == {1, 5, 6}

RECURSIVE TimedSegments(_, _)
\* Segments in the format of the store, ordered by start_time: the first
\* starts at start_time, each next one after the given pause
TimedSegments(pauses, start_time) ==
    LET segment == [start_time |-> start_time,
                    end_time |-> RAdd(start_time, RInt(SegmentLength)),
                    text |-> <<"h","i">>]
    IN  IF pauses = <<>> THEN <<segment>>
        ELSE <<segment>>
             \o TimedSegments(Tail(pauses),
                              RAdd(segment.end_time, RInt(Head(pauses))))

\* The segment lists the grouper is given
GroupInputs ==
    {TimedSegments(pauses, RInt(0)) :
        pauses \in {<<>>} \cup SeqsUpTo(Pauses, MaxSceneSegments - 1)}

\* One call of group_segments_by_silence
GroupSegmentsBySilence(segments) ==
    /\ call' = [op |-> "group_segments_by_silence",
                input |-> segments,
                output |-> group_segments_by_silence(segments).groups]
    /\ UNCHANGED <<files, videos, transcriptions, ai_responses, ai_seq,
                   video_processing_state, extended, ret, obs, writer, copies,
                   processed, grouped, runs, writes, changes, pool, threads>>

(***************************************************************************)
(* C15  Scene boundary law                                                 *)
(***************************************************************************)
\* start(i) - end(i-1) of the input of the last grouping call
PauseBefore(i) == RSub(call.input[i].start_time, call.input[i - 1].end_time)

\* The pause before input i reaches the silence threshold
LongPauseBefore(i) == RLeq(silence_threshold, PauseBefore(i))

\* The returned scenes that contain input i
ScenesOf(i) ==
    {k \in 1..Len(call.output) :
        \E m \in 1..Len(call.output[k].segments) :
            call.output[k].segments[m] = call.input[i]}

\* C15: group_segments_by_silence separates consecutive inputs i-1 and i
\* exactly when start(i) - end(i-1) >= silence_threshold: across such a
\* pause no scene holds both, across a shorter pause the two are in the
\* same scene (or both in none); a scene is a run of consecutive inputs and
\* no input is in two scenes.
C15_SceneBoundaryLaw ==
    call.op = "group_segments_by_silence" =>
        /\ \A i \in 2..Len(call.input) :
              IF LongPauseBefore(i)
              THEN ScenesOf(i - 1) \cap ScenesOf(i) = {}
              ELSE ScenesOf(i - 1) = ScenesOf(i)
        /\ \A i \in 1..Len(call.input) : Cardinality(ScenesOf(i)) <= 1
        /\ \A k \in 1..Len(call.output) :
              \E a, b \in 1..Len(call.input) :
                  call.output[k].segments = SubSeq(call.input, a, b)

\* Pauses 1, 1, 6, 1 with threshold 5: two scenes, of the first three and
\* of the last two inputs
C15_OneLongPause ==
    /\ call.op = "group_segments_by_silence"
    /\ call.input = TimedSegments(<<1, 1, 6, 1>>, RInt(0))
    /\ Len(call.output) = 2
    /\ call.output[1].segments = SubSeq(call.input, 1, 3)
    /\ call.output[2].segments = SubSeq(call.input, 4, 5)

(***************************************************************************)
(* C16  Minimum duration drop                                              *)
(***************************************************************************)
\* Inputs a..b are a run between two long pauses (or the ends of the input)
IsRun(a, b) ==
    /\ a <= b
    /\ a = 1 \/ LongPauseBefore(a)
    /\ b = Len(call.input) \/ LongPauseBefore(b + 1)
    /\ \A i \in (a + 1)..b : ~LongPauseBefore(i)

\* The run a..b lasts less than min_group_duration
Undersized(a, b) ==
    RLess(RSub(call.input[b].end_time, call.input[a].start_time),
          min_group_duration)

\* C16: every scene group_segments_by_silence returns lasts, from the start
\* of its first segment to the end of its last, at least min_group_duration;
\* the segments of an undersized run, the final one included, are in no
\* returned scene.
C16_MinimumDurationDrop ==
    call.op = "group_segments_by_silence" =>
        /\ \A k \in 1..Len(call.output) :
              LET scene == call.output[k]
                  duration ==
                      RSub(scene.segments[Len(scene.segments)].end_time,
                           scene.segments[1].start_time)
              IN  /\ ~RLess(duration, min_group_duration)
                  /\ scene.group_duration = duration
        /\ \A a, b \in 1..Len(call.input) :
              (IsRun(a, b) /\ Undersized(a, b)) =>
                  \A i \in a..b : ScenesOf(i) = {}

\* A call that returned a scene and dropped the undersized final run, the
\* segment before which is in the returned scene
C16_FinalRunDropped ==
    /\ call.op = "group_segments_by_silence"
    /\ Len(call.output) >= 1
    /\ \E a \in 2..Len(call.input) :
          /\ IsRun(a, Len(call.input))
          /\ Undersized(a, Len(call.input))
          /\ ScenesOf(a - 1) # {}
          /\ \A i \in a..Len(call.input) : ScenesOf(i) = {}

\* The segment lists of the scenes frames are extracted for: runs of
\* segments with short pauses between them
FrameInputs ==
    {TimedSegments(pauses, RInt(0)) : pauses \in SeqsUpTo({1}, MaxSceneSegments - 1)}

\* The decoder failing at the timestamp fails_at (at none when it is 0)
OutcomesOf(n, fails_at, failure) ==
    [k \in 1..n |-> IF k = fails_at THEN failure ELSE "ok"]

\* One call of extract_key_frames for the segments of a scene
ExtractKeyFrames(segments, fails_at, failure) ==
    /\ fails_at \in 0..Len(PlannedFrames(File1, segments))
    /\ (fails_at = 0) <=> (failure = "ok")
    /\ call' = [op |-> "extract_key_frames",
                input |-> segments,
                fails_at |-> fails_at,
                failure |-> failure,
                output |-> extract_key_frames_decoding(File1, segments,
                              OutcomesOf(Len(PlannedFrames(File1, segments)),
                                         fails_at, failure))]
    /\ UNCHANGED <<files, videos, transcriptions, ai_responses, ai_seq,
                   video_processing_state, extended, ret, obs, writer, copies,
                   processed, grouped, runs, writes, changes, pool, threads>>

(***************************************************************************)
(* C17  Frame-job isolation                                                *)
(***************************************************************************)
\* C17: when the decoder fails at one timestamp of a scene's job, by a read
\* without a frame or by an error raised while the timestamp is handled,
\* the job still returns the frames of all the other timestamps.
C17_FrameJobIsolation ==
    (call.op = "extract_key_frames" /\ call.fails_at > 0) =>
        LET planned == PlannedFrames(File1, call.input)
        IN  \A k \in 1..Len(planned) :
                k # call.fails_at =>
                    \E m \in 1..Len(call.output) : call.output[m] = planned[k]

NextScenes ==
    \/ \E segments \in GroupInputs :
          GroupSegmentsBySilence(segments)
    \/ \E segments \in FrameInputs, fails_at \in 0..(MaxFramesPerSegment * MaxSceneSegments),
          failure \in DecoderOutcomes :
          ExtractKeyFrames(segments, fails_at, failure)

SpecScenes == InitText /\ [][NextScenes]_vars

(***************************************************************************)
(* save_ai_response called from several background threads of the window.  *)
(* Every call opens its own connection; the SELECT and the UPDATE or       *)
(* INSERT that follows it are two statements, and statements of other      *)
(* connections may run between them. The table has no UNIQUE constraint    *)
(* on (sentence_hash, response_type, custom_prompt).                       *)
(***************************************************************************)
MaxThreadSaves == 2

\* The sentences the threads save responses for
SavedSentences ==
    { [text |-> <<"H","i",".">>, start_time |-> RInt(0), end_time |-> RInt(2)],
      [text |-> <<"O","k",".">>, start_time |-> RInt(2), end_time |-> RInt(4)] }

\* cursor.execute(SELECT id, version ...); result = cursor.fetchone()
save_ai_response_select(rows, sentence_hash, response_type, custom_prompt) ==
    LET result == MatchingRows(rows, sentence_hash, response_type, custom_prompt)
    IN  IF result = {} THEN None
        ELSE Some([id |-> rows[Min(result)].id,
                   version |-> rows[Min(result)].version])

\* The UPDATE ... WHERE id = ? of the branch that found a row: version is
\* set to the version the SELECT has read plus one
save_ai_response_update(rows, result, ai_response, ai_client) ==
    [i \in 1..Len(rows) |->
        IF rows[i].id = result.id
        THEN [rows[i] EXCEPT !.ai_response = ai_response,
                             !.ai_client = ai_client,
                             !.version = result.version + 1,
                             !.is_edited = FALSE,
                             !.edited_text = NULL]
        ELSE rows[i]]

\* The INSERT of the branch that found no row
save_ai_response_insert(rows, seq, sentence, video_filename, response_type, ai_response, ai_client, custom_prompt) ==
    Append(rows,
        [id |-> seq + 1,
         sentence_hash |-> _get_sentence_hash(sentence.text, video_filename,
                                              sentence.start_time),
         sentence_text |-> sentence.text,
         video_filename |-> video_filename,
         start_time |-> sentence.start_time,
         end_time |-> sentence.end_time,
         response_type |-> response_type,
         ai_response |-> ai_response,
         ai_client |-> ai_client,
         custom_prompt |-> custom_prompt,
         is_edited |-> FALSE,
         edited_text |-> NULL,
         version |-> 1])

\* The number of calls a thread has finished
SavesOf(t) == IF "saves" \in DOMAIN threads[t] THEN threads[t].saves ELSE 0

\* Thread t enters save_ai_response and runs its SELECT
SaveSelect(t, sentence, response_type, body) ==
    /\ threads[t].pc = "idle"
    /\ SavesOf(t) < MaxThreadSaves
    /\ threads' = [threads EXCEPT ![t] =
          [pc |-> "selected",
           saves |-> SavesOf(t),
           sentence |-> sentence,
           response_type |-> response_type,
           ai_response |-> body,
           result |-> save_ai_response_select(ai_responses,
                         _get_sentence_hash(sentence.text, File1, sentence.start_time),
                         response_type, NULL)]]
    /\ UNCHANGED <<files, videos, transcriptions, ai_responses, ai_seq,
                   video_processing_state, extended, ret, obs, writer, copies,
                   processed, grouped, runs, writes, changes, call, pool>>

\* Thread t runs the UPDATE or the INSERT its SELECT has chosen, commits
\* and returns
SaveWrite(t) ==
    /\ threads[t].pc = "selected"
    /\ IF threads[t].result # None
       THEN /\ ai_responses' = save_ai_response_update(ai_responses,
                                   threads[t].result[1], threads[t].ai_response,
                                   DefaultClient)
            /\ ai_seq' = ai_seq
       ELSE /\ ai_responses' = save_ai_response_insert(ai_responses, ai_seq,
                                   threads[t].sentence, File1,
                                   threads[t].response_type,
                                   threads[t].ai_response, DefaultClient, NULL)
            /\ ai_seq' = ai_seq + 1
    /\ threads' = [threads EXCEPT ![t] = [pc |-> "idle", saves |-> SavesOf(t) + 1]]
    /\ UNCHANGED <<files, videos, transcriptions,
                   video_processing_state, extended, ret, obs, writer, copies,
                   processed, grouped, runs, writes, changes, call, pool>>

NextSave ==
    \/ \E t \in Threads, sentence \in SavedSentences,
          response_type \in ResponseTypes, body \in AiBodies :
          SaveSelect(t, sentence, response_type, body)
    \/ \E t \in Threads :
          SaveWrite(t)

SpecSave == InitText /\ [][NextSave]_vars

(***************************************************************************)
(* C12  Annotation uniqueness                                              *)
(***************************************************************************)
\* C12: whatever save_ai_response calls have run, in whatever interleaving,
\* ai_responses holds at most one row per (sentence_hash, response_type,
\* custom_prompt).
C12_AnnotationUniqueness ==
    \A i, j \in 1..Len(ai_responses) :
        (/\ ai_responses[i].sentence_hash = ai_responses[j].sentence_hash
         /\ ai_responses[i].response_type = ai_responses[j].response_type
         /\ ai_responses[i].custom_prompt = ai_responses[j].custom_prompt)
        => i = j

(***************************************************************************)
(* Steps 6 to 8 of process_single_video_enhanced, thread by thread: the    *)
(* calling thread submits one frame job per group to a ThreadPoolExecutor, *)
(* collects the results with as_completed, leaves the with block, persists *)
(* and saves the state, while the workers of the pool run the jobs.        *)
(* The groups are those step 5 returns for a transcript whose segments     *)
(* carry the keys start_time and end_time.                                 *)
(***************************************************************************)
MaxPoolGroups == 5

\* ThreadPoolExecutor(max_workers=3)
max_workers == 3

\* The seconds a segment of the transcript and the pause after it last
PoolSegmentLength == 10

\* A transcript of n segments with pauses at the silence threshold or above
PoolSegments(n) ==
    [k \in 1..n |->
        [start_time |-> RInt(2 * PoolSegmentLength * (k - 1)),
         end_time |-> RInt(2 * PoolSegmentLength * (k - 1) + PoolSegmentLength),
         text |-> <<"h","i">>]]

\* Future.done() without the futures still to run
done_when_started(job) == job.state # "pending"

\* Future.done(): the job has returned
done(job) == job.state = "finished"

\* The jobs a worker thread is running
Running(jobs) == {j \in 1..Len(jobs) : jobs[j].state = "running"}

\* A pool that starts a worker thread for every job
WorkerAlwaysAvailable(jobs) == TRUE

\* A worker thread is idle or the pool may start another one
WorkerAvailable(jobs) == Cardinality(Running(jobs)) < max_workers

\* The timestamps job j visits, in order: those of the segments it was
\* submitted with
JobPlan(j) == pool.jobs[j].frame_times

\* The calling thread enters the with block for the groups of step 5
PoolStart(n) ==
    /\ pool.pc = "idle"
    /\ pool' = [pc |-> "submit",
                segments |-> PoolSegments(n),
                groups |-> group_segments_by_silence(PoolSegments(n)).groups,
                jobs |-> <<>>,
                collected |-> {},
                all_frames |-> <<>>]
    /\ UNCHANGED <<files, videos, transcriptions, ai_responses, ai_seq,
                   video_processing_state, extended, ret, obs, writer, copies,
                   processed, grouped, runs, writes, changes, call, threads>>

\* for group in groups: executor.submit(extract_key_frames, filepath,
\* group['segments'], 2), or the end of that loop
PoolSubmit ==
    /\ pool.pc = "submit"
    /\ IF Len(pool.jobs) < Len(pool.groups)
       THEN pool' = [pool EXCEPT !.jobs =
                        Append(@, [segments |->
                                       pool.groups[Len(pool.jobs) + 1].segments,
                                   frame_times |->
                                       PlannedFrames(File1,
                                           pool.groups[Len(pool.jobs) + 1].segments),
                                   state |-> "pending", next |-> 0,
                                   frames_data |-> <<>>])]
       ELSE pool' = [pool EXCEPT !.pc = "collect"]
    /\ UNCHANGED <<files, videos, transcriptions, ai_responses, ai_seq,
                   video_processing_state, extended, ret, obs, writer, copies,
                   processed, grouped, runs, writes, changes, call, threads>>

\* A worker takes the oldest job of the queue
JobStart(j) ==
    /\ pool.pc # "idle"
    /\ j \in 1..Len(pool.jobs)
    /\ pool.jobs[j].state = "pending"
    /\ \A i \in 1..(j - 1) : pool.jobs[i].state # "pending"
    /\ WorkerAvailable(pool.jobs)
    /\ pool' = [pool EXCEPT !.jobs[j].state = "running"]
    /\ UNCHANGED <<files, videos, transcriptions, ai_responses, ai_seq,
                   video_processing_state, extended, ret, obs, writer, copies,
                   processed, grouped, runs, writes, changes, call, threads>>

\* The worker of job j handles the next timestamp of its plan, or returns
\* after the last one; an exception ends the job with [] at once (a read
\* without a frame, which only leaves its timestamp out of the result, is
\* taken in ExtractKeyFrames)
JobStep(j, outcome) ==
    /\ pool.pc # "idle"
    /\ j \in 1..Len(pool.jobs)
    /\ pool.jobs[j].state = "running"
    /\ IF pool.jobs[j].next = Len(JobPlan(j))
       THEN /\ outcome = "ok"
            /\ pool' = [pool EXCEPT !.jobs[j].state = "finished"]
       ELSE IF outcome = "raises"
       THEN pool' = [pool EXCEPT !.jobs[j].state = "finished",
                                 !.jobs[j].frames_data = <<>>]
       ELSE pool' = [pool EXCEPT
                        !.jobs[j].next = @ + 1,
                        !.jobs[j].frames_data =
                            Append(@, JobPlan(j)[pool.jobs[j].next + 1])]
    /\ UNCHANGED <<files, videos, transcriptions, ai_responses, ai_seq,
                   video_processing_state, extended, ret, obs, writer, copies,
                   processed, grouped, runs, writes, changes, call, threads>>

\* for future in as_completed(frame_futures): all_frames.extend(
\* future.result()), or the end of that loop when every future was yielded
PoolCollect(j) ==
    /\ pool.pc = "collect"
    /\ IF pool.collected = 1..Len(pool.jobs)
       THEN /\ j = 0
            /\ pool' = [pool EXCEPT !.pc = "shutdown"]
       ELSE /\ j \in 1..Len(pool.jobs)
            /\ j \notin pool.collected
            /\ done(pool.jobs[j])
            /\ pool' = [pool EXCEPT !.collected = @ \cup {j},
                                    !.all_frames = @ \o pool.jobs[j].frames_data]
    /\ UNCHANGED <<files, videos, transcriptions, ai_responses, ai_seq,
                   video_processing_state, extended, ret, obs, writer, copies,
                   processed, grouped, runs, writes, changes, call, threads>>

\* The end of the with block: executor.shutdown(wait=True) returns when
\* every job is done
PoolShutdown ==
    /\ pool.pc = "shutdown"
    /\ \A j \in 1..Len(pool.jobs) : done(pool.jobs[j])
    /\ pool' = [pool EXCEPT !.pc = "persist"]
    /\ UNCHANGED <<files, videos, transcriptions, ai_responses, ai_seq,
                   video_processing_state, extended, ret, obs, writer, copies,
                   processed, grouped, runs, writes, changes, call, threads>>

\* Step 7: _save_groups_and_frames(video_id, filename, groups, all_frames)
PoolPersist ==
    /\ pool.pc = "persist"
    /\ extended' = _save_groups_and_frames(extended, 1, File1, pool.groups,
                                           pool.all_frames)
    /\ pool' = [pool EXCEPT !.pc = "save_state"]
    /\ UNCHANGED <<files, videos, transcriptions, ai_responses, ai_seq,
                   video_processing_state, ret, obs, writer, copies,
                   processed, grouped, runs, writes, changes, call, threads>>

\* Step 8: save_video_state(filename, filepath, len(segments))
PoolSaveState ==
    /\ pool.pc = "save_state"
    /\ video_processing_state' =
          save_video_state(video_processing_state, File1, files[File1],
                           Len(pool.segments), 1)
    /\ pool' = [pool EXCEPT !.pc = "returned"]
    /\ UNCHANGED <<files, videos, transcriptions, ai_responses, ai_seq,
                   extended, ret, obs, writer, copies,
                   processed, grouped, runs, writes, changes, call, threads>>

NextPool ==
    \/ \E n \in 0..MaxPoolGroups :
          PoolStart(n)
    \/ PoolSubmit
    \/ \E j \in 1..MaxPoolGroups :
          JobStart(j)
    \/ \E j \in 1..MaxPoolGroups, outcome \in {"ok", "raises"} :
          JobStep(j, outcome)
    \/ \E j \in 0..MaxPoolGroups :
          PoolCollect(j)
    \/ PoolShutdown
    \/ PoolPersist
    \/ PoolSaveState

SpecPool == InitText /\ [][NextPool]_vars

(***************************************************************************)
(* C11  Pool drained before persistence                                    *)
(***************************************************************************)
\* C11: when process_single_video_enhanced starts _save_groups_and_frames,
\* and from then on through saving the video state, every frame job that
\* was submitted has terminated: none is pending or running.
C11_PoolDrainedBeforePersistence ==
    pool.pc \in {"persist", "save_state", "returned"} =>
        /\ Len(pool.jobs) = Len(pool.groups)
        /\ \A j \in 1..Len(pool.jobs) : pool.jobs[j].state = "finished"

\* Persistence begins after several jobs have run, and the frames of the
\* second job were collected before those of the first
C11_PersistAfterJobs ==
    /\ pool.pc = "persist"
    /\ Len(pool.jobs) >= 2
    /\ pool.jobs[1].frames_data # <<>>
    /\ pool.jobs[2].frames_data # <<>>
    /\ pool.all_frames[1] = pool.jobs[2].frames_data[1]

EnhancedAtBuild ==
    deduplicate_with_existing_sentences(RunSentences, IndexAtBuild)

\* C27: during process_single_video(V) no sentence of V is flagged
\* has_existing_ai with V's own filename as existing_ai_source: a flag
\* always names a different video.
C27_NoSelfMatch ==
    IndexBuilt =>
        \A i \in 1..Len(EnhancedAtBuild) :
            EnhancedAtBuild[i].has_existing_ai =>
                EnhancedAtBuild[i].existing_ai_source # obs.filename


(***************************************************************************)
(* C28  Processing only adds annotation rows                               *)
(***************************************************************************)
\* The row of a table with a given id, None without one
RowById(rows, id) ==
    IF \E i \in 1..Len(rows) : rows[i].id = id
    THEN Some(rows[CHOOSE i \in 1..Len(rows) : rows[i].id = id])
    ELSE None

\* C28: process_single_video leaves every annotation row that existed
\* before the call in the table with its ai_response, version, is_edited
\* and edited_text unchanged, also when the video was processed before and
\* already has annotations; the call only adds rows.
C28_ProcessingOnlyAddsRows ==
    obs.op = "process_single_video" =>
        \A i \in 1..Len(obs.rows_before) :
            LET before == obs.rows_before[i]
                after == RowById(ai_responses, before.id)
            IN  /\ after # None
                /\ after[1].ai_response = before.ai_response
                /\ after[1].version = before.version
                /\ after[1].is_edited = before.is_edited
                /\ after[1].edited_text = before.edited_text


(***************************************************************************)
(* C21  Copier partial-failure tolerance                                   *)
(***************************************************************************)
\* The origin of a flagged sentence of the run as the copier looked it up,
\* None when it is not located
OriginOf(sentence) ==
    IF "_find_original_sentence" \in obs.failed THEN None
    ELSE _find_original_sentence(videos, transcriptions, sentence.text,
                                 sentence.existing_ai_source)

\* The annotation of one type the copier has to copy for a sentence of the
\* run: the one stored for its origin before the call, None without one
SourceResponse(sentence, response_type) ==
    IF ~Get(sentence, "has_existing_ai", FALSE)
       \/ Get(sentence, "ai_responses_count", 0) = 0
       \/ OriginOf(sentence) = None
    THEN None
    ELSE get_ai_response(obs.rows_before, OriginOf(sentence)[1].text,
                         sentence.existing_ai_source,
                         OriginOf(sentence)[1].start_time, response_type, NULL)

\* The copy was made: save_ai_response has written the source's text under
\* the key of the sentence in the processed video, as a new row or as the
\* next version of the row that was there
CopyMade(sentence, response_type) ==
    LET before == get_ai_response(obs.rows_before, sentence.text, obs.filename,
                                  sentence.start_time, response_type, NULL)
        after == get_ai_response(ai_responses, sentence.text, obs.filename,
                                 sentence.start_time, response_type, NULL)
    IN  /\ after # None
        /\ after[1].ai_response = SourceResponse(sentence, response_type)[1].ai_response
        /\ before # None => after[1].version = before[1].version + 1

\* The annotations the copier had to copy and did not
NotCopied ==
    {p \in (1..Len(EnhancedAtBuild)) \X ResponseTypes :
        /\ SourceResponse(EnhancedAtBuild[p[1]], p[2]) # None
        /\ ~CopyMade(EnhancedAtBuild[p[1]], p[2])}

\* C21: a failure on the annotation of one response type of one sentence
\* prevents no other copy: after a run of the copier in which one
\* save_ai_response call failed at most one annotation it had to copy is
\* missing, and none is missing after a run without failure.
C21_CopierPartialFailureTolerance ==
    IndexBuilt =>
        Cardinality(NotCopied)
            <= (IF "copy_ai_responses_for_duplicates" \in obs.failed THEN 1 ELSE 0)


(***************************************************************************)
(* C25  A duplicate whose origin cannot be located                         *)
(***************************************************************************)
\* The sentences of the run flagged as duplicates, and those of them whose
\* origin has annotations according to the index
FlaggedAtBuild ==
    {i \in 1..Len(EnhancedAtBuild) : EnhancedAtBuild[i].has_existing_ai}
ReusedAtBuild ==
    {i \in FlaggedAtBuild : EnhancedAtBuild[i].ai_responses_count > 0}

\* The flagged sentences whose origin the copier looked for and did not
\* locate in the origin video
OriginNotLocated ==
    {i \in ReusedAtBuild : OriginOf(EnhancedAtBuild[i]) = None}

\* C25: a sentence flagged as duplicate whose origin cannot be located in
\* the origin video is treated as a non-duplicate: the call writes no
\* annotation under its key, and duplicates_found and ai_reused of the
\* returned result do not count it.
C25_UnlocatedOriginIsNoDuplicate ==
    (IndexBuilt /\ ret.success) =>
        /\ \A i \in OriginNotLocated :
              RowsOfSentence(ai_responses, EnhancedAtBuild[i], obs.filename)
                  = RowsOfSentence(obs.rows_before, EnhancedAtBuild[i], obs.filename)
        /\ ret.duplicates_found = Cardinality(FlaggedAtBuild \ OriginNotLocated)
        /\ ret.ai_reused = Cardinality(ReusedAtBuild \ OriginNotLocated)


(***************************************************************************)
(* C23  Timestamp interpolation of the splitters                           *)
(***************************************************************************)
SplitOps == {"split_text_into_sentences", "_split_text_simple"}

\* The positions (1-based) of the delimiter parts of a segment text, in
\* order: the k-th sentence a segment emits at a delimiter ends at the k-th
DelimiterPositions(parts) ==
    SelectSeq([i \in 1..Len(parts) |-> i], LAMBDA i : IsDelimPart(parts[i]))

\* The end the interpolation over the whole segment gives a sentence that
\* ends at part token_position of total_tokens
InterpolatedEnd(segment, token_position, total_tokens) ==
    RMin(RAdd(SegStart(segment),
              RMul(RSub(SegEnd(segment), SegStart(segment)),
                   Rat(token_position, total_tokens))),
         SegEnd(segment))

\* C23: for every segment of the input and every sentence of the output
\* emitted from it at a delimiter, end_time = min(segment.start +
\* (segment.end - segment.start) * token_position / total_tokens,
\* segment.end), and the next sentence of the segment starts where it ends;
\* a trailing clause without delimiter ends at segment.end.
C23_TimestampInterpolation ==
    call.op \in SplitOps =>
        \A s \in 1..Len(call.input) :
            LET segment == call.input[s]
                parts == re_split(strip(segment.text))
                positions == DelimiterPositions(parts)
                emitted == SegmentSentences(segment)
            IN  \A k \in 1..Len(emitted) :
                    InSplitOutput(emitted[k]) =>
                        IF k <= Len(positions)
                        THEN /\ emitted[k].end_time
                                  = InterpolatedEnd(segment, positions[k], Len(parts))
                             /\ k < Len(emitted) =>
                                  emitted[k + 1].start_time = emitted[k].end_time
                        ELSE emitted[k].end_time = SegEnd(segment)


(***************************************************************************)
(* C24  Sentence times within the segment                                  *)
(***************************************************************************)
\* The segments of the input a sentence of the output was derived from
SegmentsOfSentence(sentence) ==
    {s \in 1..Len(call.input) :
        \E k \in 1..Len(SegmentSentences(call.input[s])) :
            SegmentSentences(call.input[s])[k] = sentence}

WrittenFrames ==
    {w \in (1..Len(pool.jobs)) \X (1..MaxFramesPerSegment * MaxPoolGroups) :
        w[2] <= Len(pool.jobs[w[1]].frames_data)}

RowsOfFrame(frame) ==
    {i \in 1..Len(extended.video_frames) :
        /\ extended.video_frames[i].video_id = 1
        /\ extended.video_frames[i].segment_index = frame.segment_index
        /\ extended.video_frames[i].frame_index = frame.frame_index
        /\ extended.video_frames[i].timestamp = frame.timestamp
        /\ extended.video_frames[i].frame_path = frame.frame_path}

\* The ids of the stored scenes of video 1 that contain a timestamp
ScenesContaining(frame_time) ==
    {extended.segment_groups[i].id : i \in
        {i \in 1..Len(extended.segment_groups) :
            /\ extended.segment_groups[i].video_id = 1
            /\ RLeq(extended.segment_groups[i].group_start_time, frame_time)
            /\ RLeq(frame_time, extended.segment_groups[i].group_end_time)}}

MaxAllRuns == 3

\* The faults injected into the runs of this scenario
AllFaults == {"none", "extract_audio", "save_video_state"}

\* scan_videos_directory: the files sorted by modification time, newest
\* first; any order of the files can result
ScanOrders ==
    {order \in [1..Cardinality(VideoFiles) -> VideoFiles] :
        \A i, j \in DOMAIN order : i # j => order[i] # order[j]}

\* check_video_changes: 'new', 'changed', 'processed' or 'failed'
check_video_changes(states, filename, content) ==
    IF states[filename] = None THEN "new"
    ELSE IF _get_file_hash(content) # states[filename][1].file_hash THEN "changed"
    ELSE IF states[filename][1].processing_completed THEN "processed"
    ELSE "failed"

\* The progress of the loop after process_single_video has returned outcome
AfterVideo(st, outcome) ==
    [db |-> [videos |-> outcome.videos,
             transcriptions |-> outcome.transcriptions,
             ai_responses |-> outcome.ai_responses,
             ai_seq |-> outcome.ai_seq,
             video_processing_state |-> outcome.video_processing_state],
     now |-> st.now + 1,
     processing_results |-> Append(st.processing_results, outcome.result),
     copied |-> st.copied \o outcome.copied]

RECURSIVE process_all_videos(_, _, _, _, _)
\* The loop of process_all_videos over video_files from index k on; st is
\* the store, the clock, the results and the copies made so far. A video
\* whose status is 'processed' is skipped unless force_reprocess is set.
process_all_videos(st, video_files, k, force_reprocess, faults) ==
    IF k > Len(video_files) THEN st
    ELSE IF ~force_reprocess
            /\ check_video_changes(st.db.video_processing_state, video_files[k],
                                   files[video_files[k]]) = "processed"
         THEN process_all_videos(st, video_files, k + 1, force_reprocess, faults)
         ELSE process_all_videos(
                  AfterVideo(st,
                      process_single_video(st.db, video_files[k],
                                           files[video_files[k]],
                                           faults[video_files[k]], 0, st.now + 1)),
                  video_files, k + 1, force_reprocess, faults)

\* The runs of process_single_video a returned result reports
RunsOf(result) ==
    IF result.op = "process_single_video" THEN <<result>>
    ELSE IF result.op = "process_all_videos" THEN result.results
    ELSE <<>>

\* The videos a result reports a run of, with the given outcome
RanWith(result, success) ==
    {RunsOf(result)[k].filename : k \in
        {k \in 1..Len(RunsOf(result)) : RunsOf(result)[k].success = success}}

\* The state after a call of process_all_videos that ended as st
ProcessAllVideosDone(force_reprocess, video_files, st) ==
    /\ videos' = st.db.videos
    /\ transcriptions' = st.db.transcriptions
    /\ ai_responses' = st.db.ai_responses
    /\ ai_seq' = st.db.ai_seq
    /\ video_processing_state' = st.db.video_processing_state
    /\ ret' = [op |-> "process_all_videos", success |-> TRUE,
               results |-> st.processing_results]
    /\ obs' = [op |-> "process_all_videos",
               force_reprocess |-> force_reprocess,
               video_files |-> video_files,
               status_before |->
                   [f \in VideoFiles |->
                       check_video_changes(video_processing_state, f, files[f])],
               succeeded_before |-> RanWith(ret, TRUE),
               failed_before |-> RanWith(ret, FALSE),
               rows_before |-> ai_responses]
    /\ writer' = WriterAfter(writer, st.db.ai_seq,
                             {st.copied[i].response_id : i \in 1..Len(st.copied)},
                             "copier")
    /\ copies' = copies \cup
                 {[source_text |-> st.copied[i].source_text,
                   source_video |-> st.copied[i].source_video,
                   source_start |-> st.copied[i].source_start,
                   target_text |-> st.copied[i].target_text,
                   target_video |-> st.copied[i].target_video,
                   target_start |-> st.copied[i].target_start] :
                      i \in 1..Len(st.copied)}
    /\ processed' = processed \o
                    [k \in 1..Cardinality(RanWith(ret', TRUE)) |->
                        SelectSeq(st.processing_results,
                                  LAMBDA r : r.success)[k].filename]
    /\ runs' = st.now
    /\ UNCHANGED <<files, extended, grouped, writes, changes, call, pool, threads>>

ProcessAllVideos(force_reprocess, video_files, faults) ==
    ProcessAllVideosDone(force_reprocess, video_files,
        process_all_videos([db |-> Store, now |-> runs,
                            processing_results |-> <<>>, copied |-> <<>>],
                           video_files, 1, force_reprocess, faults))

\* The window's calls: process_all_videos at start-up and from the menu,
\* process_single_video for the current video, and files that change
\* between the calls
NextAll ==
    \/ /\ runs < MaxAllRuns
       /\ \E force_reprocess \in BOOLEAN, video_files \in ScanOrders,
             faults \in [VideoFiles -> AllFaults] :
             ProcessAllVideos(force_reprocess, video_files, faults)
    \/ /\ runs < MaxAllRuns
       /\ \E filename \in VideoFiles, fault \in AllFaults :
             ProcessSingleVideo(filename, fault, 0)
    \/ /\ changes < MaxChanges
       /\ \E filename \in VideoFiles, content \in Contents :
             ChangeFile(filename, content)

SpecAll == Init /\ [][NextAll]_vars

(***************************************************************************)
(* C30  What process_all_videos(force_reprocess=False) processes           *)
(***************************************************************************)
\* The videos the last process_all_videos call has processed
ProcessedByCall == RanWith(ret, TRUE) \cup RanWith(ret, FALSE)

\* C30: process_all_videos(force_reprocess=False) processes a scanned video
\* exactly when check_video_changes does not return 'processed': a video
\* whose run just completed successfully on the unchanged file is not
\* processed again, while a new video, a video whose hash changed and a
\* video whose last run failed are processed by the call.
C30_ProcessedUnlessCompleted ==
    (obs.op = "process_all_videos" /\ ~obs.force_reprocess) =>
        \A V \in VideoFiles :
            /\ V \in ProcessedByCall <=> obs.status_before[V] # "processed"
            /\ V \in obs.succeeded_before => V \notin ProcessedByCall
            /\ obs.status_before[V] \in {"new", "changed"} => V \in ProcessedByCall
            /\ V \in obs.failed_before => V \in ProcessedByCall


(***************************************************************************)
(* The processing threads of the window. Every handler starts a daemon     *)
(* thread of its own (auto_process_videos at start-up, process_all_videos, *)
(* process_current_video, add_video_file) and none of them takes a lock;   *)
(* each thread runs process_single_video for a video, one database         *)
(* transaction after the other                                             *)
(***************************************************************************)
MaxGuiRuns == 3

\* The positions of a thread inside process_single_video after its first
\* write for the video (step 1) and before its last (step 9)
MidWrite == {"index", "copy", "finish"}

\* The threads that have started a run and not ended it
ActiveThreads == {t \in Threads : threads[t].pc # "idle"}

\* A handler starts a thread that processes a video
ThreadStart(t, filename) ==
    /\ threads[t].pc = "idle"
    /\ runs + Cardinality(ActiveThreads) < MaxGuiRuns
    /\ threads' = [threads EXCEPT ![t] = [pc |-> "store", filename |-> filename]]
    /\ UNCHANGED <<files, videos, transcriptions, ai_responses, ai_seq,
                   video_processing_state, extended, ret, obs, writer, copies,
                   processed, grouped, runs, writes, changes, call, pool>>

\* Steps 1 to 4 of the thread's run: add_video, extract_audio,
\* transcribe_audio, add_transcription
ThreadStoreDone(t, added) ==
    /\ videos' = added.videos
    /\ transcriptions' =
          add_transcription(transcriptions, added.video_id,
                            WhisperSegments(files[threads[t].filename]))
    /\ threads' = [threads EXCEPT ![t].pc = "index"]
    /\ UNCHANGED <<files, ai_responses, ai_seq,
                   video_processing_state, extended, ret, obs, writer, copies,
                   processed, grouped, runs, writes, changes, call, pool>>

ThreadStore(t) ==
    /\ threads[t].pc = "store"
    /\ ThreadStoreDone(t, add_video(videos, threads[t].filename))

\* Steps 5 and 6: the corpus index is built from the stored data of every
\* video and the sentences of the run are flagged. reads_mid_write is the
\* set of videos the build has read while another thread was between its
\* first and its last write for that video.
ThreadIndex(t) ==
    /\ threads[t].pc = "index"
    /\ threads' = [threads EXCEPT ![t] =
          [pc |-> "copy",
           filename |-> threads[t].filename,
           enhanced_sentences |->
               deduplicate_with_existing_sentences(
                   split_text_into_sentences(
                       WhisperSegments(files[threads[t].filename])),
                   _get_existing_sentences_map(videos, transcriptions,
                                               ai_responses)),
           reads_mid_write |->
               {threads[u].filename : u \in
                   {u \in Threads \ {t} :
                       /\ threads[u].pc \in MidWrite
                       /\ VideoId(videos, threads[u].filename) # 0}}]]
    /\ UNCHANGED <<files, videos, transcriptions, ai_responses, ai_seq,
                   video_processing_state, extended, ret, obs, writer, copies,
                   processed, grouped, runs, writes, changes, call, pool>>

\* Step 7: the copier, with what it has copied
ThreadCopyDone(t, copier) ==
    /\ ai_responses' = copier.rows
    /\ ai_seq' = copier.seq
    /\ writer' = WriterAfter(writer, copier.seq,
                             {copier.copied[i].response_id :
                                 i \in 1..Len(copier.copied)}, "copier")
    /\ copies' = copies \cup
                 {[source_text |-> copier.copied[i].source_text,
                   source_video |-> copier.copied[i].source_video,
                   source_start |-> copier.copied[i].source_start,
                   target_text |-> copier.copied[i].target_text,
                   target_video |-> copier.copied[i].target_video,
                   target_start |-> copier.copied[i].target_start] :
                      i \in 1..Len(copier.copied)}
    /\ threads' = [threads EXCEPT ![t].pc = "finish"]
    /\ UNCHANGED <<files, videos, transcriptions,
                   video_processing_state, extended, ret, obs,
                   processed, grouped, runs, writes, changes, call, pool>>

ThreadCopy(t) ==
    /\ threads[t].pc = "copy"
    /\ ThreadCopyDone(t,
           copy_ai_responses_for_duplicates(threads[t].enhanced_sentences,
               threads[t].filename, videos, transcriptions, ai_responses,
               ai_seq, 0))

\* Steps 8 and 9: save_video_state and processing_completed = TRUE; the
\* thread ends
ThreadFinish(t) ==
    /\ threads[t].pc = "finish"
    /\ video_processing_state' =
          MarkCompleted(
              save_video_state(video_processing_state, threads[t].filename,
                               files[threads[t].filename],
                               Len(threads[t].enhanced_sentences), runs + 1),
              threads[t].filename, Len(threads[t].enhanced_sentences))
    /\ processed' = Append(processed, threads[t].filename)
    /\ runs' = runs + 1
    /\ threads' = [threads EXCEPT ![t] =
          [pc |-> "idle", reads_mid_write |-> threads[t].reads_mid_write]]
    /\ UNCHANGED <<files, videos, transcriptions, ai_responses, ai_seq,
                   extended, ret, obs, writer, copies,
                   grouped, writes, changes, call, pool>>

\* The threads of the window step by step, and a translation the user
\* asks for in between
NextGui ==
    \/ \E t \in Threads, filename \in VideoFiles :
          ThreadStart(t, filename)
    \/ \E t \in Threads :
          ThreadStore(t)
    \/ \E t \in Threads :
          ThreadIndex(t)
    \/ \E t \in Threads :
          ThreadCopy(t)
    \/ \E t \in Threads :
          ThreadFinish(t)
    \/ /\ writes < MaxWrites
       /\ \E filename \in VideoFiles, i \in 1..MaxSentencePos :
             SaveAiResponse(filename, i, "translation", "body1")

SpecGui == InitReuse /\ [][NextGui]_vars

====
